---- MODULE Spec2Model ----
(***************************************************************************)
(* The local ledger of the RFID library kiosk (students, loans,            *)
(* transactions in IndexedDB), the borrow / return handlers of App.tsx     *)
(* and the sync cycle that pushes unsynced transactions to the remote      *)
(* store.  Every `await` of a handler is a point where other handlers may  *)
(* run, so each handler is a small process whose steps are the code        *)
(* between two awaits.                                                     *)
(***************************************************************************)
EXTENDS Integers, Sequences, FiniteSets

VARIABLES
    students,    \* db.students: set of [id, index_number, card_uid]
    loans,       \* db.loans: loan id -> Loan record; ids number the loans as inserted
    keyOrder,    \* db.loans: the ids, in the order of the primary keys (random UUIDs)
    txs,         \* db.transactions: tx id -> Tx record
    remote,      \* the remote 'transactions' table: its rows, in insertion order
    configured,  \* isSupabaseConfigured(): fixed by the build's environment
    clock,       \* the wall clock read by new Date(), in days
    bpc, bin, bstu, bnow, bloan,           \* submitBorrow invocations
    alert,       \* what alert() showed in the last step ("none": nothing)
    rpc, rloan, rnow,                      \* markReturned invocations
    shown,       \* React state `loans`: the list rendered by ReturnView
    spc, suns,   \* trySync invocations
    synclog,     \* the line trySync appended to the log in the last step ("none": nothing)
    badge,       \* useBadges state b.unsynced: the unsynced count the header shows
    refreshing,  \* a refresh() of the badges has been called and has yet to call setB
    alerts,      \* React state `alerts`: the due soon / overdue list of the dashboard
    alerting,    \* a refreshAlerts() has been called and has yet to call setAlerts
    txLoan,      \* history: tx id -> id of the loan the transaction was written for
    wire,        \* what the reader has written to the serial port and read() has yet to return
    buffer,      \* readLines: `buffer`, the text read and not yet framed
    events,      \* the objects readLines has passed to onEvent, in order
    received,    \* history: everything read() has returned so far
    scans,       \* history: the scans the reader has reported, in order
    route,       \* useRoute: the screen that is open
    lastScannedUID, cardField, returnCardField,  \* onDeviceLine: state and input fields it sets
    command, commandResult,   \* validateSerialCommand: its argument and what it returned
    rawUid, uidResult,        \* validateAndFormatUID: its argument and what it returned
    sdpc, sdloan,             \* seedInitialData invocations
    users,         \* auth: `users`, the accounts, in the order they were pushed
    sessions,      \* auth: `sessions`, in the order they were pushed
    loginAttempts, \* auth: `loginAttempts`, clientId -> [count, lastAttempt]
    authClock,     \* Date.now(), in units of five minutes
    apc, ain, auser,  \* authenticate invocations
    ipc,           \* the initializeAuth invocation
    authReturn,    \* what a function of auth returned in the last step
    issued,        \* history: the number of tokens generateSecureToken has made
    logins,        \* history: the number of authenticate calls made
    wpc,           \* withRetry: where the invocation is
    retryArgs,     \* withRetry: maxAttempts and delayMs
    attempt,       \* withRetry: `attempt`
    lastError,     \* withRetry: `lastError`
    outcome,       \* withRetry: what it returned or threw
    opLog,         \* history: how each invocation of the operation ended
    waited,        \* history: the delays of the timers that have fired
    fines,         \* FineManager: `fines`, in the order they were pushed
    fpc, fnow, ftodo, \* calculateOverdueFines invocations: position, `now`, loans yet to visit
    reservations,  \* ReservationManager: `reservations`, in the order they were pushed
    cpc, cin,      \* createReservation invocations
    called,        \* the method of ReservationManager called in the last step, with its argument
    notifications, \* store: state.notifications
    transactions,  \* store: state.transactions
    log,           \* store: state.log
    added          \* history: how many entries each add action of the store has added

appVars == <<students, loans, keyOrder, txs, remote, configured, clock,
             bpc, bin, bstu, bnow, bloan, alert, rpc, rloan, rnow, shown,
             spc, suns, synclog, badge, refreshing, alerts, alerting, txLoan>>

libVars == <<command, commandResult, rawUid, uidResult>>

readerVars == <<wire, buffer, events, received, scans, route,
                lastScannedUID, cardField, returnCardField>>

seedVars == <<sdpc, sdloan>>

authVars == <<users, sessions, loginAttempts, authClock, apc, ain, auser, ipc,
              authReturn, issued, logins>>

retryVars == <<wpc, retryArgs, attempt, lastError, outcome, opLog, waited>>

fineVars == <<fines, fpc, fnow, ftodo>>

reservationVars == <<reservations, cpc, cin, called>>

storeVars == <<notifications, transactions, log, added>>

serviceVars == <<authVars, retryVars, fineVars, reservationVars, storeVars>>

besideAuth == <<appVars, readerVars, libVars, seedVars, retryVars, fineVars, reservationVars,
                storeVars>>
besideRetry == <<appVars, readerVars, libVars, seedVars, authVars, fineVars, reservationVars,
                 storeVars>>
besideFines == <<readerVars, libVars, seedVars, authVars, retryVars, reservationVars, storeVars>>
besideReservations == <<readerVars, libVars, seedVars, authVars, retryVars, fineVars, storeVars>>
besideStore == <<appVars, readerVars, libVars, seedVars, authVars, retryVars, fineVars,
                 reservationVars>>

restVars == <<readerVars, libVars, seedVars, serviceVars>>

vars == <<appVars, restVars>>

ledgerVars == <<students, loans, keyOrder, txs, txLoan>>
borrowVars == <<bpc, bin, bstu, bnow, bloan>>
returnVars == <<rpc, rloan, rnow>>
syncVars   == <<spc, suns>>

----------------------------------------------------------------------------
(* Bounds of the exploration *)

MaxTx     == 1    \* transactions written after the seed, in Spec, LiveSpec and BadgeSpec
MaxBorrow == 3    \* loans created after the seed, in BorrowSpec
MaxReturn == 2    \* RETURN transactions written after the seed, in ReturnSpec
MaxStudents == 1  \* students added after the seed, in StudentSpec
MaxDesk   == 2    \* transactions written after the seed, in DeskSpec
MaxClock  == 1    \* days the clock advances
MaxLines  == 2    \* lines the reader writes, in ReaderSpec
MaxWords  == 3    \* words of a serial command, in CommandSpec
MaxUidChars == 4  \* characters of the short UID texts, in UidSpec

(* Program constants *)

MaxActive   == 3     \* activeCnt >= 3 rejects the borrow
HorizonDays == 2     \* soonCutoff: getDate() + 2
MinDays     == 1     \* Math.max(1, ...): the shortest loan
MaxDays     == 365   \* schemas.loan: days max(365)
DefaultDays == 14    \* borrowDaysRef value || '14'

NULL   == "null"     \* a null string field
NoTime == -9999      \* a null timestamp (returned_at)
Blank  == -1000      \* an empty <input type=number>

(* The two call sites of each handler that can overlap. *)
BorrowCalls == {"b1", "b2"}      \* clicks on Confirm Borrow
ReturnCalls == {"r1", "r2"}      \* clicks on Mark Returned
SyncCalls   == {"timer", "manual"}   \* setInterval tick, Sync Now button

(* seedInitialData: what the first launch writes into the empty database. *)
(* Day 0 is the day of the first launch.                                   *)
SeedStudents ==
    { [id |-> 1, index_number |-> "STU-001", card_uid |-> "CARD-ALICE"],
      [id |-> 2, index_number |-> "STU-002", card_uid |-> "CARD-BOB"],
      [id |-> 3, index_number |-> "STU-003", card_uid |-> "CARD-CHARLIE"] }

LoanRec(id, idx, uid, tag, borrowed, due, returned, status) ==
    [id |-> id, student_index |-> idx, user_uid |-> uid, item_tag |-> tag,
     borrowed_at |-> borrowed, due_at |-> due, returned_at |-> returned,
     status |-> status]

TxRec(id, uid, idx, tag, action, at) ==
    [id |-> id, user_uid |-> uid, student_index |-> idx, item_tag |-> tag,
     action |-> action, occurred_at |-> at, synced |-> 0]

SeedLoans ==
    << LoanRec(1, "STU-001", "CARD-ALICE", "BOOK-CS101", -10, 4, NoTime, "ACTIVE"),
       LoanRec(2, "STU-002", "CARD-BOB", "BOOK-ENG202", -20, -6, NoTime, "ACTIVE"),
       LoanRec(3, "STU-001", "CARD-ALICE", "BOOK-CS205", -30, -16, -15, "RETURNED") >>

SeedTxs ==
    << TxRec(1, "CARD-ALICE", "STU-001", "BOOK-CS101", "BORROW", -10),
       TxRec(2, "CARD-BOB", "STU-002", "BOOK-ENG202", "BORROW", -20),
       TxRec(3, "CARD-ALICE", "STU-001", "BOOK-CS205", "BORROW", -30),
       TxRec(4, "CARD-ALICE", "STU-001", "BOOK-CS205", "RETURN", -15) >>

\* the seeded loans in the order of their keys.  No two of them are ACTIVE
\* loans of one student, so no query tells their order from another.
SeedKeyOrder == <<1, 2, 3>>

\* the loan each seeded transaction belongs to
SeedTxLoan == <<1, 2, 3, 3>>

(* What can be typed or scanned into the Borrow and Return forms. *)
\* Where the id crypto.randomUUID() gives the loan of a call sorts among the
\* keys of the table: after all of them or before all of them.
KeyDraws == {"last", "first"}

CardEntries  == {NULL, "CARD-ALICE"}
IndexEntries == {NULL, "STU-002", "STU-999"}
TagEntries   == {"", "BOOK-1"}
DayEntries   == {Blank, 14}

BorrowInputs ==
    [card_uid : CardEntries, index_number : IndexEntries,
     item_tag : TagEntries, days : DayEntries, uuid : {"last"}]

NoInput == [card_uid |-> NULL, index_number |-> NULL, item_tag |-> "", days |-> Blank,
            uuid |-> "last"]
NoLoan  == [id |-> 0]

Max(a, b) == IF a >= b THEN a ELSE b

----------------------------------------------------------------------------
(* db.ts helpers *)

\* Math.max(1, parseInt(value || '14', 10))
ParseDays(v) == Max(MinDays, IF v = Blank THEN DefaultDays ELSE v)

\* addDays(dateIso, days)
addDays(t, days) == t + days

ActiveLoanIds(idx) ==
    {id \in DOMAIN loans : loans[id].status = "ACTIVE" /\ loans[id].student_index = idx}

\* countActiveLoans(index_number)
countActiveLoans(idx) == Cardinality(ActiveLoanIds(idx))

\* Collection.first(): of the records with the same key, the lowest primary key
first(S) == CHOOSE s \in S : \A t \in S : s.id <= t.id

\* db.students.where(field).equals(value)
StudentsByIndex(idx) == {s \in students : s.index_number = idx}
StudentsByCard(uid)  == {s \in students : s.card_uid = uid}

\* the ids of S in the order of their primary keys: the order toArray()
\* yields within one key of the status index
IdSeq(S) ==
    LET at == {i \in DOMAIN keyOrder : keyOrder[i] \in S}
    IN [k \in 1..Cardinality(at) |->
           keyOrder[CHOOSE i \in at : Cardinality({j \in at : j < i}) = k - 1]]

\* insert r into a list sorted by due_at, after the entries that compare equal
RECURSIVE InsertByDue(_, _)
InsertByDue(r, s) ==
    IF s = <<>> THEN <<r>>
    ELSE IF r.due_at < Head(s).due_at THEN <<r>> \o s
    ELSE <<Head(s)>> \o InsertByDue(r, Tail(s))

\* list.sort((a,b) => a.due_at.localeCompare(b.due_at)), a stable sort
RECURSIVE SortByDue(_)
SortByDue(s) ==
    IF s = <<>> THEN <<>>
    ELSE InsertByDue(s[Len(s)], SortByDue(SubSeq(s, 1, Len(s) - 1)))

\* activeLoansForStudent without the status filter
MutactiveLoansForStudent(idxIn, uidIn) ==
    LET idx == IF idxIn # NULL THEN idxIn
               ELSE IF uidIn # NULL /\ StudentsByCard(uidIn) # {}
                    THEN first(StudentsByCard(uidIn)).index_number
                    ELSE NULL
        ids == IdSeq({id \in DOMAIN loans : loans[id].student_index = idx})
    IN IF idx = NULL THEN <<>>
       ELSE [i \in 1..Len(ids) |-> loans[ids[i]]]

\* activeLoansForStudent({index_number, card_uid})
activeLoansForStudent(idxIn, uidIn) ==
    LET idx == IF idxIn # NULL THEN idxIn
               ELSE IF uidIn # NULL /\ StudentsByCard(uidIn) # {}
                    THEN first(StudentsByCard(uidIn)).index_number
                    ELSE NULL
        ids == IdSeq(ActiveLoanIds(idx))
    IN IF idx = NULL THEN <<>>
       ELSE [i \in 1..Len(ids) |-> loans[ids[i]]]

\* crypto.randomUUID(): a name no record of the table carries yet
FreshId(table) == Cardinality(DOMAIN table) + 1

Put(table, id, rec) ==
    [k \in DOMAIN table \cup {id} |-> IF k = id THEN rec ELSE table[k]]

Unsynced == {id \in DOMAIN txs : txs[id].synced # 1}

\* flagged with the loans due exactly at the cutoff left out
Mutflagged(now) ==
    LET ids == IdSeq({id \in DOMAIN loans : loans[id].status = "ACTIVE"})
        all == [i \in 1..Len(ids) |-> loans[ids[i]]]
    IN SortByDue(SelectSeq(all, LAMBDA l : l.due_at < now + HorizonDays))

\* refreshAlerts: all.filter(l => new Date(l.due_at) <= soonCutoff).sort(...)
\* of the ACTIVE loans, at time now
flagged(now) ==
    LET ids == IdSeq({id \in DOMAIN loans : loans[id].status = "ACTIVE"})
        all == [i \in 1..Len(ids) |-> loans[ids[i]]]
    IN SortByDue(SelectSeq(all, LAMBDA l : l.due_at <= now + HorizonDays))

----------------------------------------------------------------------------
\* the database after the first launch has seeded it
Seeded ==
    /\ students = SeedStudents
    /\ loans = SeedLoans
    /\ keyOrder = SeedKeyOrder
    /\ txs = SeedTxs
    /\ txLoan = SeedTxLoan

\* the application is up and no handler is running
AtRest ==
    /\ remote = << >>
    /\ configured \in BOOLEAN
    /\ clock = 0
    /\ bpc = [p \in BorrowCalls |-> "idle"]
    /\ bin = [p \in BorrowCalls |-> NoInput]
    /\ bstu = [p \in BorrowCalls |-> NULL]
    /\ bnow = [p \in BorrowCalls |-> NoTime]
    /\ bloan = [p \in BorrowCalls |-> 0]
    /\ alert = "none"
    /\ rpc = [p \in ReturnCalls |-> "idle"]
    /\ rloan = [p \in ReturnCalls |-> NoLoan]
    /\ rnow = [p \in ReturnCalls |-> NoTime]
    /\ shown = << >>
    /\ spc = [p \in SyncCalls |-> "idle"]
    /\ suns = [p \in SyncCalls |-> << >>]
    /\ synclog = "none"
    /\ badge = Len(txs)
    /\ alerts = flagged(0)
    /\ alerting = FALSE

AppInit == Seeded /\ AtRest /\ refreshing = FALSE

\* no reader is connected
Unplugged ==
    /\ wire = << >> /\ buffer = << >> /\ events = << >>
    /\ received = << >> /\ scans = << >>
    /\ route = "#dashboard"
    /\ lastScannedUID = "" /\ cardField = "" /\ returnCardField = ""

\* what a validator of lib/validation has returned when it has not been called
NoResult == [valid |-> FALSE, value |-> << >>, error |-> "not called"]

\* no validator has been called
Unasked ==
    /\ command = << >> /\ commandResult = NoResult
    /\ rawUid = << >> /\ uidResult = NoResult

\* The two invocations of the init effect that can overlap.
SeedCalls == {"s1", "s2"}

\* seedInitialData is not running
Unseeding ==
    /\ sdpc = [p \in SeedCalls |-> "idle"]
    /\ sdloan = [p \in SeedCalls |-> 0]

\* The call sites of authenticate that can overlap.
AuthCalls == {"a1", "a2"}

\* what the functions of auth return in a step in which none of them returns
NoReturn == [fn |-> "none"]

\* the auth module as loaded: no account, no session, no attempt recorded
SignedOut ==
    /\ users = << >> /\ sessions = << >>
    /\ loginAttempts = << >>
    /\ authClock = 0
    /\ apc = [p \in AuthCalls |-> "idle"]
    /\ ain = [p \in AuthCalls |-> [username |-> "", password |-> "", clientId |-> ""]]
    /\ auser = [p \in AuthCalls |-> 0]
    /\ ipc = "idle"
    /\ authReturn = NoReturn
    /\ issued = 0 /\ logins = 0

\* what withRetry holds in lastError before a failure, and what it has
\* returned or thrown before it has ended
null == [kind |-> "null"]
Pending == [kind |-> "pending"]

\* withRetry has not been called
Untried ==
    /\ wpc = "idle"
    /\ retryArgs = [maxAttempts |-> 0, delayMs |-> 0]
    /\ attempt = 0 /\ lastError = null /\ outcome = Pending
    /\ opLog = << >> /\ waited = << >>

\* The call sites of calculateOverdueFines that can overlap.
FineCalls == {"f1", "f2"}

\* the FineManager as constructed
Unfined ==
    /\ fines = << >>
    /\ fpc = [p \in FineCalls |-> "idle"]
    /\ fnow = [p \in FineCalls |-> NoTime]
    /\ ftodo = [p \in FineCalls |-> << >>]

\* The call sites of createReservation that can overlap.
ReserveCalls == {"c1", "c2"}

\* what `called` holds after a step that calls no method of ReservationManager
NoCall == [fn |-> "none", arg |-> 0]

\* the ReservationManager as constructed
Unreserved ==
    /\ reservations = << >>
    /\ cpc = [p \in ReserveCalls |-> "idle"]
    /\ cin = [p \in ReserveCalls |-> [studentId |-> 0, itemTag |-> "", daysToExpire |-> 0]]
    /\ called = NoCall

\* the lists of the store in initialUIState, initialAppState, initialDeviceState
EmptyStore ==
    /\ notifications = << >> /\ transactions = << >> /\ log = << >>
    /\ added = [notifications |-> 0, transactions |-> 0, log |-> 0]

\* the modules beside the app, as loaded
Loaded == SignedOut /\ Untried /\ Unfined /\ Unreserved /\ EmptyStore

Init == AppInit /\ Unplugged /\ Unasked /\ Unseeding /\ Loaded

\* the same in a build with no remote store, where the modules beside the app run
ServiceInit == Init /\ configured = FALSE

\* a step in which alert() is not called
Quiet == alert' = "none"

\* a step in which trySync appends no line to the log
Silent == synclog' = "none"

\* a step that calls neither refresh() nor refreshAlerts() and sets neither
\* the badges nor the alerts
Still == UNCHANGED <<badge, refreshing, alerts, alerting>>

\* a step that does not call refreshAlerts() and does not set the alerts
Calm == UNCHANGED <<alerts, alerting>>

\* refreshAlerts(), not awaited: the loans are read and the alerts set later
refreshAlerts == alerting' = TRUE /\ UNCHANGED alerts

\* refresh(), not awaited: stats() is read and the badges are set later
refresh == refreshing' = TRUE /\ UNCHANGED badge

Tick ==
    /\ clock < MaxClock
    /\ clock' = clock + 1
    /\ Quiet /\ Silent /\ Still
    /\ UNCHANGED <<ledgerVars, remote, configured, restVars, borrowVars, returnVars, shown, syncVars>>

\* the Refresh button of the dashboard: onRefreshAlerts
AlertsButton ==
    /\ refreshAlerts
    /\ Quiet /\ Silent /\ UNCHANGED <<badge, refreshing>>
    /\ UNCHANGED <<ledgerVars, remote, configured, restVars, clock, borrowVars, returnVars,
                   shown, syncVars>>

\* const all = await db.loans.where('status').equals('ACTIVE').toArray();
\* ...; setAlerts(flagged)
RefreshAlerts ==
    /\ alerting
    /\ alerts' = flagged(clock)
    /\ alerting' = FALSE
    /\ Quiet /\ Silent /\ UNCHANGED <<badge, refreshing>>
    /\ UNCHANGED <<ledgerVars, remote, configured, restVars, clock, borrowVars, returnVars,
                   shown, syncVars>>

\* const s = await stats(); setB({ ..., unsynced: s.unsynced })
Refresh ==
    /\ refreshing
    /\ badge' = Cardinality(Unsynced)
    /\ refreshing' = FALSE
    /\ Quiet /\ Silent /\ Calm
    /\ UNCHANGED <<ledgerVars, remote, configured, restVars, clock, borrowVars, returnVars, shown, syncVars>>

----------------------------------------------------------------------------
(* ManageStudentsView: handleAddStudent and handleUpdateStudent *)

StudentIndexEntries == {NULL, "STU-001", "STU-004"}
StudentCardEntries  == {NULL, "CARD-ALICE", "CARD-NEW"}

\* the key the ++id primary key gives the next record
NextStudentId == Cardinality(students) + 1

\* the Add form: index number (and name) required, then await db.students.add(student)
handleAddStudent(idx, card) ==
    /\ IF idx = NULL
       THEN alert' = "required" /\ Still /\ UNCHANGED students
       ELSE /\ students' = students \cup
                   {[id |-> NextStudentId, index_number |-> idx, card_uid |-> card]}
            /\ Quiet /\ refresh /\ Calm
    /\ Silent
    /\ UNCHANGED <<loans, keyOrder, txs, txLoan, remote, configured, restVars, clock, borrowVars,
                   returnVars, shown, syncVars>>

\* the Edit form of the row of student id: await db.students.put(editStudent)
handleUpdateStudent(id, idx, card) ==
    /\ \E s \in students : s.id = id
    /\ students' = {s \in students : s.id # id} \cup
                      {[id |-> id, index_number |-> idx, card_uid |-> card]}
    /\ Quiet /\ Silent /\ refresh /\ Calm
    /\ UNCHANGED <<loans, keyOrder, txs, txLoan, remote, configured, restVars, clock, borrowVars,
                   returnVars, shown, syncVars>>

\* the Delete button of the row of student id, confirmed:
\* await db.students.delete(id)
handleDeleteStudent(id) ==
    /\ \E s \in students : s.id = id
    /\ students' = {s \in students : s.id # id}
    /\ Quiet /\ Silent /\ refresh /\ Calm
    /\ UNCHANGED <<loans, keyOrder, txs, txLoan, remote, configured, restVars, clock, borrowVars,
                   returnVars, shown, syncVars>>

----------------------------------------------------------------------------
(* submitBorrow *)

InFlightBorrows == {p \in BorrowCalls : bpc[p] # "idle"}

\* alert(msg); return
BorrowReject(p, msg) ==
    /\ alert' = msg /\ Silent /\ Still
    /\ bpc' = [bpc EXCEPT ![p] = "idle"]
    /\ bin' = [bin EXCEPT ![p] = NoInput]
    /\ bstu' = [bstu EXCEPT ![p] = NULL]
    /\ bnow' = [bnow EXCEPT ![p] = NoTime]
    /\ bloan' = [bloan EXCEPT ![p] = 0]

\* the form is read and validated; no await has run yet
BorrowSubmit(p, in) ==
    /\ bpc[p] = "idle"
    /\ IF in.item_tag = "" THEN BorrowReject(p, "no_tag")
       ELSE IF in.card_uid = NULL /\ in.index_number = NULL THEN BorrowReject(p, "no_identity")
       ELSE /\ bpc' = [bpc EXCEPT ![p] = "resolve"]
            /\ bin' = [bin EXCEPT ![p] = in]
            /\ Quiet /\ Silent /\ Still
            /\ UNCHANGED <<bstu, bnow, bloan>>
    /\ UNCHANGED <<ledgerVars, remote, configured, restVars, clock, returnVars, shown, syncVars>>

\* BorrowResolve that falls back on the card when the index finds no student
MutBorrowResolve(p) ==
    /\ bpc[p] = "resolve"
    /\ LET byIndex == IF bin[p].index_number # NULL
                      THEN StudentsByIndex(bin[p].index_number) ELSE {}
           found == IF byIndex # {} THEN byIndex ELSE StudentsByCard(bin[p].card_uid)
       IN IF found = {} THEN BorrowReject(p, "not_found")
          ELSE /\ bpc' = [bpc EXCEPT ![p] = "count"]
               /\ bstu' = [bstu EXCEPT ![p] = first(found).index_number]
               /\ bin' = [bin EXCEPT ![p].index_number = NULL]
               /\ Quiet /\ Silent /\ Still
               /\ UNCHANGED <<bnow, bloan>>
    /\ UNCHANGED <<ledgerVars, remote, configured, restVars, clock, returnVars, shown, syncVars>>

\* await db.students.where(...).first(): by index when one was entered, else by card
BorrowResolve(p) ==
    /\ bpc[p] = "resolve"
    /\ LET found == IF bin[p].index_number # NULL
                    THEN StudentsByIndex(bin[p].index_number)
                    ELSE StudentsByCard(bin[p].card_uid)
       IN IF found = {} THEN BorrowReject(p, "not_found")
          ELSE /\ bpc' = [bpc EXCEPT ![p] = "count"]
               /\ bstu' = [bstu EXCEPT ![p] = first(found).index_number]
               \* index_number is not read again
               /\ bin' = [bin EXCEPT ![p].index_number = NULL]
               /\ Quiet /\ Silent /\ Still
               /\ UNCHANGED <<bnow, bloan>>
    /\ UNCHANGED <<ledgerVars, remote, configured, restVars, clock, returnVars, shown, syncVars>>

\* BorrowCount with the loan written before the limit is checked
MutBorrowCount(p) ==
    /\ bpc[p] = "count"
    /\ LET id == FreshId(loans)
       IN loans' = Put(loans, id, LoanRec(id, bstu[p], bin[p].card_uid, bin[p].item_tag,
                                         clock, addDays(clock, ParseDays(bin[p].days)),
                                         NoTime, "ACTIVE"))
    /\ IF countActiveLoans(bstu[p]) >= MaxActive THEN BorrowReject(p, "limit")
       ELSE /\ bpc' = [bpc EXCEPT ![p] = "addTx"]
            /\ bnow' = [bnow EXCEPT ![p] = clock]
            /\ bloan' = [bloan EXCEPT ![p] = FreshId(loans)]
            /\ Quiet /\ Silent /\ Still
            /\ UNCHANGED <<bin, bstu>>
    /\ keyOrder' = Append(keyOrder, FreshId(loans))
    /\ UNCHANGED <<students, txs, txLoan, remote, configured, restVars, clock, returnVars, shown, syncVars>>

\* await countActiveLoans(stu.index_number); the limit check; new Date()
BorrowCount(p) ==
    /\ bpc[p] = "count"
    /\ IF countActiveLoans(bstu[p]) >= MaxActive THEN BorrowReject(p, "limit")
       ELSE /\ bpc' = [bpc EXCEPT ![p] = "addLoan"]
            /\ bnow' = [bnow EXCEPT ![p] = clock]
            /\ Quiet /\ Silent /\ Still
            /\ UNCHANGED <<bin, bstu, bloan>>
    /\ UNCHANGED <<ledgerVars, remote, configured, restVars, clock, returnVars, shown, syncVars>>

\* NewLoan that is due the day it is borrowed
MutNewLoan(p, id) ==
    LoanRec(id, bstu[p], bin[p].card_uid, bin[p].item_tag, bnow[p], bnow[p], NoTime, "ACTIVE")

\* const loan: Loan = { ... }
NewLoan(p, id) ==
    LoanRec(id, bstu[p], bin[p].card_uid, bin[p].item_tag, bnow[p],
            addDays(bnow[p], ParseDays(bin[p].days)), NoTime, "ACTIVE")

\* const tx: Tx = { ... }
BorrowTx(p, id) ==
    TxRec(id, bin[p].card_uid, bstu[p], bin[p].item_tag, "BORROW", bnow[p])

\* await db.loans.add(loan)
BorrowAddLoan(p) ==
    /\ bpc[p] = "addLoan"
    /\ LET id == FreshId(loans)
       IN /\ loans' = Put(loans, id, NewLoan(p, id))
          /\ keyOrder' = IF bin[p].uuid = "first" THEN <<id>> \o keyOrder
                          ELSE Append(keyOrder, id)
          /\ bloan' = [bloan EXCEPT ![p] = id]
    /\ bpc' = [bpc EXCEPT ![p] = "addTx"]
    /\ Quiet /\ Silent /\ Still
    /\ UNCHANGED <<students, txs, txLoan, remote, configured, restVars, clock,
                   bin, bstu, bnow, returnVars, shown, syncVars>>

\* await db.transactions.add(tx); the call is over
BorrowAddTx(p) ==
    /\ bpc[p] = "addTx"
    /\ LET id == FreshId(txs)
       IN /\ txs' = Put(txs, id, BorrowTx(p, id))
          /\ txLoan' = Put(txLoan, id, bloan[p])
    /\ bpc' = [bpc EXCEPT ![p] = "idle"]
    /\ bin' = [bin EXCEPT ![p] = NoInput]
    /\ bstu' = [bstu EXCEPT ![p] = NULL]
    /\ bnow' = [bnow EXCEPT ![p] = NoTime]
    /\ bloan' = [bloan EXCEPT ![p] = 0]
    /\ Quiet /\ Silent /\ refresh /\ refreshAlerts
    /\ UNCHANGED <<students, loans, keyOrder, remote, configured, restVars, clock, returnVars, shown, syncVars>>

----------------------------------------------------------------------------
(* ReturnView: loadLoansForReturn and markReturned *)

IndexQueries == {NULL, "STU-001", "STU-002"}
CardQueries  == {NULL, "CARD-ALICE"}

\* setLoans(list.sort(...)) of the active loans of the student typed in
loadLoansForReturn(idx, uid) ==
    shown' = SortByDue(activeLoansForStudent(idx, uid))

\* the Load Loans button, or a card scanned on the Return screen
LoadLoans(idx, uid) ==
    /\ loadLoansForReturn(idx, uid)
    /\ Quiet /\ Silent /\ Still
    /\ UNCHANGED <<ledgerVars, remote, configured, restVars, clock, borrowVars, returnVars, syncVars>>

ReturnTxs == {t \in DOMAIN txs : txs[t].action = "RETURN"}
\* calls that have yet to write their transaction
PendingReturns == {p \in ReturnCalls : rpc[p] = "addTx"}

\* a click on row i of the list: the guard, new Date(), await db.loans.put(updated)
ReturnPut(p, i) ==
    /\ rpc[p] = "idle"
    /\ i \in 1..Len(shown)
    /\ shown[i].status = "ACTIVE"
    /\ loans' = Put(loans, shown[i].id,
                    [shown[i] EXCEPT !.status = "RETURNED", !.returned_at = clock])
    /\ rpc' = [rpc EXCEPT ![p] = "addTx"]
    /\ rloan' = [rloan EXCEPT ![p] = shown[i]]
    /\ rnow' = [rnow EXCEPT ![p] = clock]
    /\ Quiet /\ Silent /\ Still
    /\ UNCHANGED <<students, keyOrder, txs, txLoan, remote, configured, restVars, clock,
                   borrowVars, shown, syncVars>>

ReturnTx(p, id) ==
    TxRec(id, rloan[p].user_uid, rloan[p].student_index, rloan[p].item_tag,
          "RETURN", rnow[p])

\* await db.transactions.add(tx)
ReturnAddTx(p) ==
    /\ rpc[p] = "addTx"
    /\ LET id == FreshId(txs)
       IN /\ txs' = Put(txs, id, ReturnTx(p, id))
          /\ txLoan' = Put(txLoan, id, rloan[p].id)
    /\ rpc' = [rpc EXCEPT ![p] = "reload"]
    /\ rloan' = [rloan EXCEPT ![p] = NoLoan]
    /\ rnow' = [rnow EXCEPT ![p] = NoTime]
    /\ Quiet /\ Silent /\ refresh /\ refreshAlerts
    /\ UNCHANGED <<students, loans, keyOrder, remote, configured, restVars, clock, borrowVars, shown, syncVars>>

\* await loadLoansForReturn(); the call is over
ReturnReload(p, idx, uid) ==
    /\ rpc[p] = "reload"
    /\ loadLoansForReturn(idx, uid)
    /\ rpc' = [rpc EXCEPT ![p] = "idle"]
    /\ Quiet /\ Silent /\ Still
    /\ UNCHANGED <<ledgerVars, remote, configured, restVars, clock, borrowVars, rloan, rnow, syncVars>>

----------------------------------------------------------------------------
(* trySync *)

\* the rows of the unsynced transactions, as read
UnsyncedRows == [id \in Unsynced |-> txs[id]]

SyncEnd(p) ==
    /\ spc' = [spc EXCEPT ![p] = "idle"]
    /\ suns' = [suns EXCEPT ![p] = << >>]

\* isSupabaseConfigured(); await db.transactions.where('synced').notEqual(1).toArray()
\* (not configured, or nothing unsynced: the call returns and nothing changes)
SyncRead(p) ==
    /\ spc[p] = "idle"
    /\ configured
    /\ Unsynced # {}
    /\ spc' = [spc EXCEPT ![p] = "probe"]
    /\ suns' = [suns EXCEPT ![p] = UnsyncedRows]
    /\ Quiet /\ Silent /\ Still
    /\ UNCHANGED <<ledgerVars, remote, configured, restVars, clock, borrowVars, returnVars, shown>>

\* await fetch(url + '/status') answered ok
SyncProbeOk(p) ==
    /\ spc[p] = "probe"
    /\ spc' = [spc EXCEPT ![p] = "upsert"]
    /\ Quiet /\ Silent /\ Still
    /\ UNCHANGED <<ledgerVars, remote, configured, restVars, clock, borrowVars, returnVars, shown, suns>>

\* SyncProbeFail with the batch marked synced although nothing was sent
MutSyncProbeFail(p) ==
    /\ spc[p] = "probe"
    /\ txs' = [id \in DOMAIN txs |->
                 IF id \in DOMAIN suns[p] THEN [txs[id] EXCEPT !.synced = 1] ELSE txs[id]]
    /\ SyncEnd(p)
    /\ Quiet /\ synclog' = (IF p = "manual" THEN "Offline." ELSE "none") /\ Still
    /\ UNCHANGED <<students, loans, keyOrder, txLoan, remote, configured, restVars, clock, borrowVars, returnVars, shown>>

\* the fetch failed or answered not ok: 'Offline.'
SyncProbeFail(p) ==
    /\ spc[p] = "probe"
    /\ SyncEnd(p)
    /\ Quiet /\ synclog' = (IF p = "manual" THEN "Offline." ELSE "none") /\ Still
    /\ UNCHANGED <<ledgerVars, remote, configured, restVars, clock, borrowVars, returnVars, shown>>

\* the batch in the order it is sent: toArray() yields ascending primary keys
BatchSeq(rows) ==
    [i \in 1..Cardinality(DOMAIN rows) |->
        rows[CHOOSE x \in DOMAIN rows : Cardinality({y \in DOMAIN rows : y < x}) = i - 1]]

\* insert that ignores the conflict target: every row of the batch is appended
Mutupsert(table, rows) == table \o BatchSeq(rows)

\* supabase.from('transactions').upsert(rows, { onConflict: 'id' }): a row of
\* the table whose id a batch row carries is replaced by it, and the batch
\* rows whose id no row carries are inserted
upsert(table, rows) ==
    LET held == {table[i].id : i \in DOMAIN table}
        fresh == [id \in DOMAIN rows \ held |-> rows[id]]
    IN [i \in DOMAIN table |->
           IF table[i].id \in DOMAIN rows THEN rows[table[i].id] ELSE table[i]]
       \o BatchSeq(fresh)

\* upsertTransactions(uns) returned { ok: true }
SyncUpsertOk(p) ==
    /\ spc[p] = "upsert"
    /\ remote' = upsert(remote, suns[p])
    /\ spc' = [spc EXCEPT ![p] = "mark"]
    /\ Quiet /\ Silent /\ Still
    /\ UNCHANGED <<ledgerVars, configured, restVars, clock, borrowVars, returnVars, shown, suns>>

\* SyncUpsertRejected with the batch marked whatever the answer
MutSyncUpsertRejected(p) ==
    /\ spc[p] = "upsert"
    /\ spc' = [spc EXCEPT ![p] = "mark"]
    /\ Quiet /\ Silent /\ Still
    /\ UNCHANGED <<ledgerVars, remote, configured, restVars, clock, borrowVars, returnVars, shown, suns>>

\* upsertTransactions(uns) returned { ok: false }: the remote refused the batch
SyncUpsertRejected(p) ==
    /\ spc[p] = "upsert"
    /\ SyncEnd(p)
    /\ Quiet /\ synclog' = "Sync failed" /\ Still
    /\ UNCHANGED <<ledgerVars, remote, configured, restVars, clock, borrowVars, returnVars, shown>>

\* SyncUpsertLost that raises the failure to the desk with alert()
MutSyncUpsertLost(p) ==
    /\ spc[p] = "upsert"
    /\ remote' = upsert(remote, suns[p])
    /\ SyncEnd(p)
    /\ alert' = "sync_failed" /\ synclog' = "Sync failed" /\ Still
    /\ UNCHANGED <<ledgerVars, configured, restVars, clock, borrowVars, returnVars, shown>>

\* the remote stored the batch and its answer was lost: { ok: false }
SyncUpsertLost(p) ==
    /\ spc[p] = "upsert"
    /\ remote' = upsert(remote, suns[p])
    /\ SyncEnd(p)
    /\ Quiet /\ synclog' = "Sync failed" /\ Still
    /\ UNCHANGED <<ledgerVars, configured, restVars, clock, borrowVars, returnVars, shown>>

\* bulkPut that replaces the table by the rows
MutBulkPut(table, rows) == rows

\* db.transactions.bulkPut(rows): insert or replace by primary key
bulkPut(table, rows) ==
    [id \in DOMAIN table \cup DOMAIN rows |-> IF id \in DOMAIN rows THEN rows[id] ELSE table[id]]

\* MarkedRows that leaves the flag as read
MutMarkedRows(rows) == rows

\* uns.map(r => ({ ...r, synced: 1 }))
MarkedRows(rows) == [id \in DOMAIN rows |-> [rows[id] EXCEPT !.synced = 1]]

\* SyncMark that marks every transaction of the table, read or not
MutSyncMarkTable(p) ==
    /\ spc[p] = "mark"
    /\ txs' = [id \in DOMAIN txs |-> [txs[id] EXCEPT !.synced = 1]]
    /\ SyncEnd(p)
    /\ Quiet /\ synclog' = "Synced" /\ refresh /\ Calm
    /\ UNCHANGED <<students, loans, keyOrder, txLoan, remote, configured, restVars, clock, borrowVars, returnVars, shown>>

\* SyncMark that marks the first row of the batch only
MutSyncMark(p) ==
    /\ spc[p] = "mark"
    /\ txs' = bulkPut(txs, MarkedRows([id \in {CHOOSE x \in DOMAIN suns[p] : \A y \in DOMAIN suns[p] : x <= y}
                                         |-> suns[p][id]]))
    /\ SyncEnd(p)
    /\ Quiet /\ synclog' = "Synced" /\ refresh /\ Calm
    /\ UNCHANGED <<students, loans, keyOrder, txLoan, remote, configured, restVars, clock, borrowVars, returnVars, shown>>

\* if (syncOk) await db.transactions.bulkPut(...)
SyncMark(p) ==
    /\ spc[p] = "mark"
    /\ txs' = bulkPut(txs, MarkedRows(suns[p]))
    /\ SyncEnd(p)
    /\ Quiet /\ synclog' = "Synced" /\ refresh /\ Calm
    /\ UNCHANGED <<students, loans, keyOrder, txLoan, remote, configured, restVars, clock, borrowVars, returnVars, shown>>

----------------------------------------------------------------------------
(* The device bridge: readLines of lib/serial.ts and onDeviceLine.  Text   *)
(* is a sequence of tokens: a token is one character of the framing (CR,   *)
(* LF, a space) or a run of characters without white space.                *)

CR == "\r"
LF == "\n"
SP == " "
White == {CR, LF, SP}

CardPrefix == "CARD_SCANNED:"
Uids == {"E0A1B2C3"}
Tags == {"BOOK-42"}

\* the JSON line of the README for a scan: one run of characters
Json(kind, value) ==
    IF kind = "card" THEN "{\"event\":\"card\",\"uid\":\"" \o value \o "\"}"
    ELSE "{\"event\":\"item\",\"tag\":\"" \o value \o "\"}"

Min(S) == CHOOSE x \in S : \A y \in S : x <= y
Top(S) == CHOOSE x \in S : \A y \in S : x >= y

\* String.prototype.trim()
trim(s) ==
    LET keep == {i \in 1..Len(s) : s[i] \notin White}
    IN IF keep = {} THEN << >> ELSE SubSeq(s, Min(keep), Top(keep))

\* buffer.search(/\r?\n/): the place of the first LF, or of the CR before it;
\* places are counted from 1, and 0 is the code's -1
search(buf) ==
    LET hits == {i \in 1..Len(buf) :
                    \/ buf[i] = LF
                    \/ buf[i] = CR /\ i < Len(buf) /\ buf[i + 1] = LF}
    IN IF hits = {} THEN 0 ELSE Min(hits)

\* the string a sequence of tokens spells
RECURSIVE Join(_)
Join(s) == IF s = << >> THEN "" ELSE Head(s) \o Join(Tail(s))

\* an object passed to onEvent: data is its line, uid or state
Event(kind, data) == [event |-> kind, data |-> data]

\* what onEvent is called with for one non-empty line: the raw line, then
\* the event of a firmware line (the reader of this model writes no STATUS| line)
parse(line) ==
    <<Event("raw", Join(line))>> \o
    (IF line[1] = CardPrefix THEN <<Event("card", Join(trim(Tail(line))))>>
     ELSE IF line = <<"SCAN_ARMED">> THEN <<Event("scan", "armed")>>
     ELSE IF line = <<"SCAN_DONE">> THEN <<Event("scan", "done")>>
     ELSE << >>)

\* frame that keeps no partial line: what follows the last terminator is dropped
RECURSIVE Mutframe(_, _)
Mutframe(buf, out) ==
    LET idx == search(buf)
        line == trim(SubSeq(buf, 1, idx - 1))
    IN IF idx = 0 THEN [buffer |-> << >>, out |-> out]
       ELSE Mutframe(SubSeq(buf, idx + 1, Len(buf)),
                     IF line = << >> THEN out ELSE out \o parse(line))

\* while ((idx = buffer.search(/\r?\n/)) >= 0) { ... }: the buffer that is
\* left and the events passed to onEvent
RECURSIVE frame(_, _)
frame(buf, out) ==
    LET idx == search(buf)
        line == trim(SubSeq(buf, 1, idx - 1))
    IN IF idx = 0 THEN [buffer |-> buf, out |-> out]
       ELSE frame(SubSeq(buf, idx + 1, Len(buf)),
                  IF line = << >> THEN out ELSE out \o parse(line))

\* the uids of the card events of a list of events
CardUids(evs) ==
    LET at == {i \in DOMAIN evs : evs[i].event = "card"}
    IN [k \in 1..Cardinality(at) |->
           evs[CHOOSE i \in at : Cardinality({j \in at : j < i}) = k - 1].data]

\* onDeviceLine for the events of one read: a card event sets the last
\* scanned UID and the card field of the Borrow or the Return screen, and
\* on the Return screen loads the loans of the card
onDeviceLine(evs, idx) ==
    LET uids == CardUids(evs)
        uid == uids[Len(uids)]
    IN IF uids = << >>
       THEN UNCHANGED <<lastScannedUID, cardField, returnCardField, shown>>
       ELSE /\ lastScannedUID' = uid
            /\ cardField' = IF route = "#borrow" THEN uid ELSE cardField
            /\ returnCardField' = IF route = "#return" THEN uid ELSE returnCardField
            /\ IF route = "#return" THEN loadLoansForReturn(idx, uid)
               ELSE UNCHANGED shown

\* await reader.read() returned the first n tokens on the wire; the loop
\* frames them
ReaderRead(n, idx) ==
    /\ n \in 1..Len(wire)
    /\ LET value == SubSeq(wire, 1, n)
           r == frame(buffer \o value, << >>)
       IN /\ wire' = SubSeq(wire, n + 1, Len(wire))
          /\ received' = received \o value
          /\ buffer' = r.buffer
          /\ events' = events \o r.out
          /\ onDeviceLine(r.out, idx)
    /\ Quiet /\ Silent /\ Still
    /\ UNCHANGED <<ledgerVars, remote, configured, clock, borrowVars, returnVars,
                   syncVars, scans, route, libVars, seedVars>>
    /\ UNCHANGED serviceVars

\* lines written so far
LinesWritten == Cardinality({i \in DOMAIN (received \o wire) : (received \o wire)[i] = LF})

Terminators == {<<LF>>, <<CR, LF>>}

\* what the reader writes for a scan: the firmware's line for a card, or the
\* README's JSON line
ScanLines(kind, value) ==
    {<<Json(kind, value)>>} \cup
    (IF kind = "card" THEN {<<CardPrefix, value>>, <<CardPrefix, SP, value>>} ELSE {})

\* the other lines of the firmware, an empty line and a padded one
OtherLines == {<<"SCAN_ARMED">>, <<SP, "SCAN_DONE">>, << >>, <<SP>>}

\* the reader reports a scan
ReaderScan(kind, value, line, term) ==
    /\ wire' = wire \o line \o term
    /\ scans' = Append(scans, [kind |-> kind, value |-> value])
    /\ Quiet /\ Silent /\ Still
    /\ UNCHANGED <<ledgerVars, remote, configured, clock, borrowVars, returnVars,
                   shown, syncVars, buffer, events, received, route,
                   lastScannedUID, cardField, returnCardField, libVars, seedVars>>
    /\ UNCHANGED serviceVars

\* the reader writes another line
ReaderLine(line, term) ==
    /\ wire' = wire \o line \o term
    /\ Quiet /\ Silent /\ Still
    /\ UNCHANGED <<ledgerVars, remote, configured, clock, borrowVars, returnVars,
                   shown, syncVars, buffer, events, received, scans, route,
                   lastScannedUID, cardField, returnCardField, libVars, seedVars>>
    /\ UNCHANGED serviceVars

Routes == {"#dashboard", "#borrow", "#return"}

\* a click in the navigation bar: setRoute(r)
setRoute(r) ==
    /\ route' = r
    /\ Quiet /\ Silent /\ Still
    /\ UNCHANGED <<ledgerVars, remote, configured, clock, borrowVars, returnVars,
                   shown, syncVars, wire, buffer, events, received, scans,
                   lastScannedUID, cardField, returnCardField, libVars, seedVars>>
    /\ UNCHANGED serviceVars

----------------------------------------------------------------------------
(* lib/validation: validateSerialCommand and validateAndFormatUID.  Text   *)
(* is a sequence of characters.                                            *)

\* the spelling of the words of the device commands
Spell ==
    [STATUS |-> <<"S", "T", "A", "T", "U", "S">>,
     SCAN |-> <<"S", "C", "A", "N">>,
     SMS |-> <<"S", "M", "S">>,
     ON |-> <<"O", "N">>,
     OFF |-> <<"O", "F", "F">>,
     AUTO |-> <<"A", "U", "T", "O">>,
     REMIND |-> <<"R", "E", "M", "I", "N", "D">>,
     ALL |-> <<"A", "L", "L">>,
     SET |-> <<"S", "E", "T">>,
     STUDENT |-> <<"S", "T", "U", "D", "E", "N", "T">>,
     BORROW |-> <<"B", "O", "R", "R", "O", "W">>,
     RETURN |-> <<"R", "E", "T", "U", "R", "N">>,
     ONE |-> <<"O", "N", "E">>,
     DELETE |-> <<"D", "E", "L", "E", "T", "E">>]

\* two words with a space between them
With(a, b) == a \o <<SP>> \o b

\* String.prototype.toUpperCase(), letter by letter
UpperCase ==
    [a |-> "A", b |-> "B", c |-> "C", d |-> "D", e |-> "E", f |-> "F", g |-> "G",
     h |-> "H", i |-> "I", j |-> "J", k |-> "K", l |-> "L", m |-> "M", n |-> "N",
     o |-> "O", p |-> "P", q |-> "Q", r |-> "R", s |-> "S", t |-> "T", u |-> "U",
     v |-> "V", w |-> "W", x |-> "X", y |-> "Y", z |-> "Z"]

toUpperCase(s) ==
    [i \in DOMAIN s |-> IF s[i] \in DOMAIN UpperCase THEN UpperCase[s[i]] ELSE s[i]]

\* s.startsWith(pre), s.includes(sub), s.split(' ')[0]
startsWith(s, pre) == Len(pre) <= Len(s) /\ SubSeq(s, 1, Len(pre)) = pre
includes(s, sub) == \E i \in 1..(Len(s) - Len(sub) + 1) : SubSeq(s, i, i + Len(sub) - 1) = sub
firstWord(s) ==
    LET gaps == {i \in DOMAIN s : s[i] = SP}
    IN IF gaps = {} THEN s ELSE SubSeq(s, 1, Min(gaps) - 1)

allowedCommands ==
    << Spell.STATUS, Spell.SCAN, With(Spell.SMS, Spell.ON), With(Spell.SMS, Spell.OFF),
       With(Spell.AUTO, Spell.ON), With(Spell.AUTO, Spell.OFF),
       With(Spell.REMIND, Spell.ALL), With(Spell.SET, Spell.STUDENT),
       Spell.BORROW, Spell.RETURN, With(Spell.REMIND, Spell.ONE) >>

Invalid(error) == [valid |-> FALSE, value |-> << >>, error |-> error]
Valid(value) == [valid |-> TRUE, value |-> value, error |-> ""]

\* validateSerialCommand(command): value is `sanitized`
validateSerialCommand(cmd) ==
    IF cmd = << >> THEN Invalid("Command is required and must be a string")
    ELSE LET sanitized == toUpperCase(trim(cmd))
             baseCommand == firstWord(sanitized)
             isAllowed == \E i \in DOMAIN allowedCommands :
                             \/ startsWith(sanitized, allowedCommands[i])
                             \/ baseCommand = firstWord(allowedCommands[i])
         IN IF ~isAllowed THEN Invalid("Command not allowed")
            ELSE IF \/ includes(sanitized, <<";">>)
                    \/ includes(sanitized, <<"&", "&">>)
                    \/ includes(sanitized, <<"|", "|">>)
                 THEN Invalid("Invalid characters in command")
            ELSE Valid(sanitized)

MinUidLength == 4
MaxUidLength == 20
HexDigits == {"0", "1", "2", "3", "4", "5", "6", "7", "8", "9", "A", "B", "C", "D", "E", "F"}
Separators == White \cup {"-", ":"}

\* cleaned that leaves the letters as they were typed
Mutcleaned(u) == SelectSeq(u, LAMBDA c : c \notin Separators)

\* uid.replace(/[\s\-:]/g, '').toUpperCase()
cleaned(u) == toUpperCase(SelectSeq(u, LAMBDA c : c \notin Separators))

\* validateAndFormatUID(uid): value is `formatted`
validateAndFormatUID(u) ==
    IF u = << >> THEN Invalid("UID is required and must be a string")
    ELSE IF ~(cleaned(u) # << >> /\ \A i \in DOMAIN cleaned(u) : cleaned(u)[i] \in HexDigits)
         THEN Invalid("UID must contain only hexadecimal characters")
    ELSE IF Len(cleaned(u)) < MinUidLength \/ Len(cleaned(u)) > MaxUidLength
         THEN Invalid("UID must be between 4 and 20 characters long")
    ELSE Valid(cleaned(u))

\* a caller passes the command to validateSerialCommand
ValidateCommand ==
    /\ commandResult = NoResult
    /\ commandResult' = validateSerialCommand(command)
    /\ Quiet /\ Silent /\ Still
    /\ UNCHANGED <<ledgerVars, remote, configured, clock, borrowVars, returnVars, shown,
                   syncVars, readerVars, seedVars, command, rawUid, uidResult>>
    /\ UNCHANGED serviceVars

\* a caller passes the UID to validateAndFormatUID
ValidateUID ==
    /\ uidResult = NoResult
    /\ uidResult' = validateAndFormatUID(rawUid)
    /\ Quiet /\ Silent /\ Still
    /\ UNCHANGED <<ledgerVars, remote, configured, clock, borrowVars, returnVars, shown,
                   syncVars, readerVars, seedVars, command, commandResult, rawUid>>
    /\ UNCHANGED serviceVars

(* CommandSpec: validateSerialCommand is called with a command of up to    *)
(* MaxWords words, with or without a space before and after it.            *)

InputWords ==
    { Spell.STATUS, <<"s", "t", "a", "t", "u", "s">>, Spell.SMS, Spell.ON, Spell.DELETE,
      Spell.ALL, <<"1", "8", "0">>, Spell.STATUS \o <<";">>, <<"&", "&">>, <<"|", "|">>,
      <<"|">> }

RECURSIVE Phrases(_)
Phrases(n) ==
    IF n = 1 THEN InputWords
    ELSE {With(ph, w) : ph \in Phrases(n - 1), w \in InputWords}

Commands ==
    LET bare == UNION {Phrases(n) : n \in 1..MaxWords}
    IN {<< >>, <<SP>>} \cup bare \cup {<<SP>> \o c \o <<SP>> : c \in bare}

CommandInit ==
    /\ AppInit /\ configured = FALSE /\ Unplugged /\ Unseeding /\ Loaded
    /\ command \in Commands /\ commandResult = NoResult
    /\ rawUid = << >> /\ uidResult = NoResult

CommandSpec == CommandInit /\ [][ValidateCommand]_vars

(* UidSpec: validateAndFormatUID is called with every text of up to        *)
(* MaxUidChars characters and with texts around the longest UID.           *)

UidChars == {"a", "F", "0", "g", "-", ":", SP}

LongUids ==
    {[i \in 1..n |-> "A"] : n \in (MaxUidLength - 1)..(MaxUidLength + 1)} \cup
    {[i \in 1..(MaxUidLength + 1) |-> IF i = 3 THEN ":" ELSE "b"]}

UidInputs == UNION {[1..n -> UidChars] : n \in 0..MaxUidChars} \cup LongUids

UidInit ==
    /\ AppInit /\ configured = FALSE /\ Unplugged /\ Unseeding /\ Loaded
    /\ command = << >> /\ commandResult = NoResult
    /\ rawUid \in UidInputs /\ uidResult = NoResult

UidSpec == UidInit /\ [][ValidateUID]_vars

----------------------------------------------------------------------------
(* seedInitialData, called by the init effect of App *)

\* const studentCount = await db.students.count(); if (studentCount > 0) return
seedCount(p) ==
    /\ sdpc[p] = "idle"
    /\ IF Cardinality(students) > 0
       THEN UNCHANGED sdpc /\ refreshAlerts /\ UNCHANGED <<badge, refreshing>>
       ELSE sdpc' = [sdpc EXCEPT ![p] = "students"] /\ Still
    /\ Quiet /\ Silent
    /\ UNCHANGED <<ledgerVars, remote, configured, clock, borrowVars, returnVars, shown,
                   syncVars, readerVars, libVars, sdloan>>
    /\ UNCHANGED serviceVars

\* await db.students.bulkAdd(studentsToCreate): ++id numbers the records
bulkAddStudents(p) ==
    /\ sdpc[p] = "students"
    /\ students' = students \cup
          {[s EXCEPT !.id = Cardinality(students) + s.id] : s \in SeedStudents}
    /\ sdpc' = [sdpc EXCEPT ![p] = "loans"]
    /\ Quiet /\ Silent /\ Still
    /\ UNCHANGED <<loans, keyOrder, txs, txLoan, remote, configured, clock, borrowVars,
                   returnVars, shown, syncVars, readerVars, libVars, sdloan>>
    /\ UNCHANGED serviceVars

\* await db.loans.bulkAdd(loansToCreate): every loan has a new random id
bulkAddLoans(p) ==
    /\ sdpc[p] = "loans"
    /\ loans' = loans \o [i \in DOMAIN SeedLoans |->
                            [SeedLoans[i] EXCEPT !.id = Len(loans) + i]]
    /\ keyOrder' = keyOrder \o [i \in DOMAIN SeedKeyOrder |-> Len(loans) + SeedKeyOrder[i]]
    /\ sdloan' = [sdloan EXCEPT ![p] = Len(loans)]
    /\ sdpc' = [sdpc EXCEPT ![p] = "txs"]
    /\ Quiet /\ Silent /\ Still
    /\ UNCHANGED <<students, txs, txLoan, remote, configured, clock, borrowVars,
                   returnVars, shown, syncVars, readerVars, libVars>>
    /\ UNCHANGED serviceVars

\* await db.transactions.bulkAdd(txsToCreate); the effect then hydrates the
\* lists and calls refreshAlerts()
bulkAddTxs(p) ==
    /\ sdpc[p] = "txs"
    /\ txs' = txs \o [i \in DOMAIN SeedTxs |-> [SeedTxs[i] EXCEPT !.id = Len(txs) + i]]
    /\ txLoan' = txLoan \o [i \in DOMAIN SeedTxLoan |-> sdloan[p] + SeedTxLoan[i]]
    /\ sdpc' = [sdpc EXCEPT ![p] = "idle"]
    /\ sdloan' = [sdloan EXCEPT ![p] = 0]
    /\ Quiet /\ Silent /\ refreshAlerts /\ UNCHANGED <<badge, refreshing>>
    /\ UNCHANGED <<students, loans, keyOrder, remote, configured, clock, borrowVars,
                   returnVars, shown, syncVars, readerVars, libVars>>
    /\ UNCHANGED serviceVars

(* SeedSpec: the first launch: the database is empty, the badges' mount    *)
(* effect has called refresh(), and the init effect runs seedInitialData,  *)
(* possibly twice at once and again on every later launch.                 *)

SeedInit ==
    /\ students = {} /\ loans = << >> /\ keyOrder = << >> /\ txs = << >> /\ txLoan = << >>
    /\ AtRest /\ configured = FALSE /\ refreshing = TRUE
    /\ Unplugged /\ Unasked /\ Unseeding /\ Loaded

SeedNext ==
    \/ \E p \in SeedCalls : seedCount(p)
    \/ \E p \in SeedCalls : bulkAddStudents(p)
    \/ \E p \in SeedCalls : bulkAddLoans(p)
    \/ \E p \in SeedCalls : bulkAddTxs(p)
    \/ Refresh
    \/ AlertsButton
    \/ RefreshAlerts

SeedSpec == SeedInit /\ [][SeedNext]_vars

----------------------------------------------------------------------------
(* auth: accounts, sessions and the limit on failed logins.  Time is     *)
(* Date.now() in units of five minutes.                                    *)

\* CONFIG.maxLoginAttempts
maxLoginAttempts == 5
\* CONFIG.lockoutDuration: 15 minutes
lockoutDuration == 3
\* CONFIG.sessionDuration: 8 hours
sessionDuration == 96

MaxLogins == 7
MaxAuthClock == 3

\* a Map without the key k
delete(m, k) == [x \in DOMAIN m \ {k} |-> m[x]]

\* a Map with the key k set to v
set(m, k, v) == [x \in DOMAIN m \cup {k} |-> IF x = k THEN v ELSE m[x]]

\* bcrypt.hash(password) and bcrypt.compare(password, hash)
hash(password) == <<"bcrypt", password>>
compare(password, passwordHash) == passwordHash = hash(password)

\* import.meta.env.VITE_ADMIN_USER || 'admin', VITE_ADMIN_PASS || 'admin'
adminUsername == "admin"
adminPassword == "admin"

\* checkRateLimit that also locks out at the very end of the lockout
MutcheckRateLimit(identifier) ==
    \/ identifier \notin DOMAIN loginAttempts
    \/ ~ /\ loginAttempts[identifier].count >= maxLoginAttempts
         /\ authClock - loginAttempts[identifier].lastAttempt <= lockoutDuration

\* checkRateLimit: what it returns
checkRateLimit(identifier) ==
    \/ identifier \notin DOMAIN loginAttempts
    \/ ~ /\ loginAttempts[identifier].count >= maxLoginAttempts
         /\ authClock - loginAttempts[identifier].lastAttempt < lockoutDuration

\* checkRateLimit: loginAttempts when it has returned; a lockout that is
\* over is deleted
checked(identifier) ==
    IF /\ identifier \in DOMAIN loginAttempts
       /\ loginAttempts[identifier].count >= maxLoginAttempts
       /\ checkRateLimit(identifier)
    THEN delete(loginAttempts, identifier)
    ELSE loginAttempts

\* recordFailedAttempt, on the Map m
recordFailedAttempt(m, identifier) ==
    LET attempts == IF identifier \in DOMAIN m THEN m[identifier]
                    ELSE [count |-> 0, lastAttempt |-> 0]
    IN set(m, identifier, [count |-> attempts.count + 1, lastAttempt |-> authClock])

\* username?.trim() and password?.trim(): the texts that are empty when trimmed
Blanks == {"", " "}

\* users.find(u => u.username === username && u.isActive): the first one, as a set
findUser(username) ==
    LET hits == {i \in DOMAIN users : users[i].username = username /\ users[i].isActive}
    IN IF hits = {} THEN {} ELSE {users[CHOOSE i \in hits : \A j \in hits : i <= j]}

\* sessions.find(s => s.token === token): the first one, as a set of positions
findSession(token) ==
    LET hits == {i \in DOMAIN sessions : sessions[i].token = token}
    IN IF hits = {} THEN {} ELSE {CHOOSE i \in hits : \A j \in hits : i <= j}

\* a sequence without its element at position i
splice(seq, i) == SubSeq(seq, 1, i - 1) \o SubSeq(seq, i + 1, Len(seq))

\* the return of authenticate when it fails
Failure(clientId, error) ==
    [fn |-> "authenticate", clientId |-> clientId, success |-> FALSE, token |-> 0,
     error |-> error]

\* authenticate, up to `await bcrypt.compare`: the rate limit, the input
\* validation and the lookup of the account
AuthStart(p, in, cap) ==
    /\ apc[p] = "idle" /\ logins < cap
    /\ logins' = logins + 1
    /\ IF ~checkRateLimit(in.clientId)
       THEN /\ authReturn' = Failure(in.clientId, "too_many")
            /\ UNCHANGED <<loginAttempts, apc, ain, auser>>
       ELSE IF in.username \in Blanks \/ in.password \in Blanks
       THEN /\ loginAttempts' = recordFailedAttempt(checked(in.clientId), in.clientId)
            /\ authReturn' = Failure(in.clientId, "required")
            /\ UNCHANGED <<apc, ain, auser>>
       ELSE IF findUser(in.username) = {}
       THEN /\ loginAttempts' = recordFailedAttempt(checked(in.clientId), in.clientId)
            /\ authReturn' = Failure(in.clientId, "invalid")
            /\ UNCHANGED <<apc, ain, auser>>
       ELSE /\ loginAttempts' = checked(in.clientId)
            /\ apc' = [apc EXCEPT ![p] = "compare"]
            /\ ain' = [ain EXCEPT ![p] = in]
            /\ auser' = [auser EXCEPT ![p] = (CHOOSE u \in findUser(in.username) : TRUE).id]
            /\ authReturn' = NoReturn
    /\ UNCHANGED <<users, sessions, authClock, ipc, issued>>
    /\ UNCHANGED besideAuth

\* authenticate, after `await bcrypt.compare`: a failure is recorded, or the
\* attempts are cleared and a session with a new token is pushed
AuthFinish(p) ==
    /\ apc[p] = "compare"
    /\ LET user == CHOOSE u \in {users[i] : i \in DOMAIN users} : u.id = auser[p]
           c == ain[p].clientId
       IN IF ~compare(ain[p].password, user.passwordHash)
          THEN /\ loginAttempts' = recordFailedAttempt(loginAttempts, c)
               /\ authReturn' = Failure(c, "invalid")
               /\ UNCHANGED <<sessions, issued>>
          ELSE /\ loginAttempts' = delete(loginAttempts, c)
               /\ issued' = issued + 1
               /\ sessions' = Append(sessions,
                      [id |-> issued + 1, userId |-> user.id, token |-> issued + 1,
                       expiresAt |-> authClock + sessionDuration])
               /\ authReturn' = [fn |-> "authenticate", clientId |-> c, success |-> TRUE,
                                 token |-> issued + 1, error |-> "none"]
    /\ apc' = [apc EXCEPT ![p] = "idle"]
    /\ ain' = [ain EXCEPT ![p] = [username |-> "", password |-> "", clientId |-> ""]]
    /\ auser' = [auser EXCEPT ![p] = 0]
    /\ UNCHANGED <<users, authClock, ipc, logins>>
    /\ UNCHANGED besideAuth

\* validateSession that does not look at expiresAt
MutvalidateSession(token) ==
    /\ LET found == findSession(token)
           i == CHOOSE i \in found : TRUE
       IN IF token = 0 \/ found = {}
          THEN authReturn' = [fn |-> "validateSession", token |-> token, valid |-> FALSE]
          ELSE authReturn' =
                     [fn |-> "validateSession", token |-> token,
                      valid |-> \E k \in DOMAIN users :
                                   users[k].id = sessions[i].userId /\ users[k].isActive]
    /\ UNCHANGED <<users, sessions, loginAttempts, authClock, apc, ain, auser, ipc, issued,
                   logins>>
    /\ UNCHANGED besideAuth

\* validateSession(token); token 0 is the empty token
validateSession(token) ==
    /\ LET found == findSession(token)
           i == CHOOSE i \in found : TRUE
       IN IF token = 0 \/ found = {}
          THEN /\ authReturn' = [fn |-> "validateSession", token |-> token, valid |-> FALSE]
               /\ UNCHANGED sessions
          ELSE IF authClock > sessions[i].expiresAt
          THEN /\ sessions' = SelectSeq(sessions, LAMBDA x : x.id # sessions[i].id)
               /\ authReturn' = [fn |-> "validateSession", token |-> token, valid |-> FALSE]
          ELSE /\ authReturn' =
                     [fn |-> "validateSession", token |-> token,
                      valid |-> \E k \in DOMAIN users :
                                   users[k].id = sessions[i].userId /\ users[k].isActive]
               /\ UNCHANGED sessions
    /\ UNCHANGED <<users, loginAttempts, authClock, apc, ain, auser, ipc, issued, logins>>
    /\ UNCHANGED besideAuth

\* logout(token)
logout(token) ==
    /\ LET found == findSession(token)
       IN IF found # {}
          THEN /\ sessions' = splice(sessions, CHOOSE i \in found : TRUE)
               /\ authReturn' = [fn |-> "logout", token |-> token, valid |-> TRUE]
          ELSE /\ authReturn' = [fn |-> "logout", token |-> token, valid |-> FALSE]
               /\ UNCHANGED sessions
    /\ UNCHANGED <<users, loginAttempts, authClock, apc, ain, auser, ipc, issued, logins>>
    /\ UNCHANGED besideAuth

\* cleanupExpiredSessions()
cleanupExpiredSessions ==
    /\ sessions' = SelectSeq(sessions, LAMBDA x : x.expiresAt > authClock)
    /\ authReturn' = NoReturn
    /\ UNCHANGED <<users, loginAttempts, authClock, apc, ain, auser, ipc, issued, logins>>
    /\ UNCHANGED besideAuth

\* initializeAuth, up to `await bcrypt.hash`: is there an admin already
InitializeCheck ==
    /\ ipc = "idle"
    /\ ipc' = IF \E i \in DOMAIN users : users[i].username = adminUsername
              THEN "idle" ELSE "hash"
    /\ authReturn' = NoReturn
    /\ UNCHANGED <<users, sessions, loginAttempts, authClock, apc, ain, auser, issued, logins>>
    /\ UNCHANGED besideAuth

\* initializeAuth, after `await bcrypt.hash`: users.push(adminUser)
InitializePush ==
    /\ ipc = "hash"
    /\ users' = Append(users, [id |-> Len(users) + 1, username |-> adminUsername,
                               role |-> "admin", passwordHash |-> hash(adminPassword),
                               isActive |-> TRUE])
    /\ ipc' = "idle"
    /\ authReturn' = NoReturn
    /\ UNCHANGED <<sessions, loginAttempts, authClock, apc, ain, auser, issued, logins>>
    /\ UNCHANGED besideAuth

\* time passes: d units
AuthTick(d) ==
    /\ (authClock + d) % sessionDuration <= MaxAuthClock
    /\ authClock + d <= sessionDuration + MaxAuthClock
    /\ authClock' = authClock + d
    /\ authReturn' = NoReturn
    /\ UNCHANGED <<users, sessions, loginAttempts, apc, ain, auser, ipc, issued, logins>>
    /\ UNCHANGED besideAuth

(* LockoutSpec: the admin account is made; logins with good, wrong and    *)
(* blank credentials come from one client and wrong passwords from        *)
(* another, two logins at a time, while time passes five minutes at a      *)
(* time.                                                                   *)

ClientIds == {"web", "kiosk"}

Credentials ==
    {[username |-> adminUsername, password |-> adminPassword],
     [username |-> adminUsername, password |-> "wrong"],
     [username |-> " ", password |-> adminPassword]}

\* one client enters every credential, the other only the wrong password
AuthInputs ==
    {[username |-> c.username, password |-> c.password, clientId |-> "web"] :
        c \in Credentials} \cup
    {[username |-> adminUsername, password |-> "wrong", clientId |-> "kiosk"]}

LockoutNext ==
    \/ InitializeCheck
    \/ InitializePush
    \/ \E p \in AuthCalls : \E in \in AuthInputs : AuthStart(p, in, MaxLogins)
    \/ \E p \in AuthCalls : AuthFinish(p)
    \/ AuthTick(1)

LockoutSpec == ServiceInit /\ [][LockoutNext]_vars

(* SessionSpec: the admin logs in up to MaxSessions times; the tokens are  *)
(* validated, logged out and cleaned up while time passes, five minutes    *)
(* or a whole session at a time.                                           *)

MaxSessions == 2

\* the tokens a caller may present: the empty one, those made, one never made
Tokens == 0..(issued + 1)

SessionNext ==
    \/ InitializeCheck
    \/ InitializePush
    \/ \E p \in AuthCalls : \E in \in AuthInputs : AuthStart(p, in, MaxSessions)
    \/ \E p \in AuthCalls : AuthFinish(p)
    \/ \E t \in Tokens : validateSession(t)
    \/ \E t \in Tokens : logout(t)
    \/ cleanupExpiredSessions
    \/ \E d \in {1, sessionDuration} : AuthTick(d)

SessionSpec == ServiceInit /\ [][SessionNext]_vars


----------------------------------------------------------------------------
(* error-handling: withRetry(operation, maxAttempts, delayMs).  The         *)
(* operation is the caller's: each invocation resolves with a value or     *)
(* rejects with a reason, an Error or not, whose message is the number of  *)
(* the invocation.                                                         *)

MaxAttempts == 3

\* error instanceof Error ? error : new Error(String(error))
asError(reason) == [kind |-> "Error", message |-> reason.message]

\* withRetry that keeps the error of the first attempt
MutnextError(last, reason) == IF last = null THEN asError(reason) ELSE last

\* lastError after a rejection with `reason`
nextError(last, reason) == asError(reason)

\* delayMs * Math.pow(2, attempt - 1)
delay == retryArgs.delayMs * 2 ^ (attempt - 1)

\* withRetry is called: lastError = null, attempt = 1, and the loop invokes
\* the operation, or is over at once and `throw lastError` throws null
RetryCall(args) ==
    /\ wpc = "idle"
    /\ retryArgs' = args
    /\ attempt' = 1 /\ lastError' = null
    /\ IF 1 <= args.maxAttempts
       THEN wpc' = "operation" /\ UNCHANGED outcome
       ELSE wpc' = "done" /\ outcome' = [kind |-> "thrown", value |-> null]
    /\ UNCHANGED <<opLog, waited>>
    /\ UNCHANGED besideRetry

\* return await operation(): the operation resolves
OperationResolves(value) ==
    /\ wpc = "operation"
    /\ opLog' = Append(opLog, [kind |-> "resolved", value |-> value])
    /\ outcome' = [kind |-> "returned", value |-> value]
    /\ wpc' = "done"
    /\ UNCHANGED <<retryArgs, attempt, lastError, waited>>
    /\ UNCHANGED besideRetry

\* catch (error): the operation rejects; the last attempt breaks out of the
\* loop to `throw lastError`, an earlier one sets the timer of the backoff
OperationRejects(kind) ==
    /\ wpc = "operation"
    /\ LET reason == [kind |-> kind, message |-> Len(opLog) + 1]
       IN /\ opLog' = Append(opLog, [kind |-> "rejected", value |-> reason])
          /\ lastError' = nextError(lastError, reason)
          /\ IF attempt = retryArgs.maxAttempts
             THEN /\ wpc' = "done"
                  /\ outcome' = [kind |-> "thrown", value |-> nextError(lastError, reason)]
             ELSE wpc' = "delay" /\ UNCHANGED outcome
    /\ UNCHANGED <<retryArgs, attempt, waited>>
    /\ UNCHANGED besideRetry

\* the timer fires: logger.warn, attempt++, and the loop invokes the
\* operation again, or is over and `throw lastError`
TimerFires ==
    /\ wpc = "delay"
    /\ waited' = Append(waited, delay)
    /\ attempt' = attempt + 1
    /\ IF attempt + 1 <= retryArgs.maxAttempts
       THEN wpc' = "operation" /\ UNCHANGED outcome
       ELSE wpc' = "done" /\ outcome' = [kind |-> "thrown", value |-> lastError]
    /\ UNCHANGED <<retryArgs, lastError, opLog>>
    /\ UNCHANGED besideRetry

(* RetrySpec: one withRetry call with up to MaxAttempts attempts (none     *)
(* included) and a delay of a second or none, around an operation that     *)
(* resolves or rejects as it pleases.  RetryLive adds that a timer that    *)
(* is set fires and that the operation settles.                            *)

RetryInputs ==
    {[maxAttempts |-> n, delayMs |-> d] : n \in 0..MaxAttempts, d \in {0, 1000}}

\* what the operation may resolve with
Values == {[kind |-> "value", message |-> m] : m \in {7, 8}}

ReasonKinds == {"Error", "string"}

RetryNext ==
    \/ \E args \in RetryInputs : RetryCall(args)
    \/ \E v \in Values : OperationResolves(v)
    \/ \E k \in ReasonKinds : OperationRejects(k)
    \/ TimerFires

RetrySpec == ServiceInit /\ [][RetryNext]_vars

RetryFairness ==
    /\ WF_vars(TimerFires)
    /\ WF_vars((\E v \in Values : OperationResolves(v)) \/
               (\E k \in ReasonKinds : OperationRejects(k)))

RetryLive == RetrySpec /\ RetryFairness

----------------------------------------------------------------------------
(* FineManager: overdue fines and their payment.  Amounts are in units of  *)
(* $0.50.                                                                  *)

\* $0.50 per day
FinePerDay == 1
\* max $25
FineMax == 50

MaxFines == 3

\* this.fines.find(f => f.loanId === loan.id && f.type === 'OVERDUE' &&
\* f.status === 'PENDING'), in the list fs: is there one
existingFine(fs, loanId) ==
    \E i \in DOMAIN fs :
        fs[i].loanId = loanId /\ fs[i].type = "OVERDUE" /\ fs[i].status = "PENDING"

\* the for loop, up to its next `await`: the loans that have a fine are passed
RECURSIVE visit(_, _)
visit(todo, fs) ==
    IF todo = << >> THEN << >>
    ELSE IF existingFine(fs, Head(todo)) THEN visit(Tail(todo), fs)
    ELSE todo

\* Math.min(daysOverdue * 0.50, 25.00)
fineAmount(daysOverdue) == Min({daysOverdue * FinePerDay, FineMax})

\* calculateOverdueFines is called: now = new Date(), await db.loans...toArray()
calculateOverdueFines(p) ==
    /\ fpc[p] = "idle"
    /\ Len(fines) + Cardinality({q \in FineCalls : fpc[q] # "idle"}) < MaxFines
    /\ fpc' = [fpc EXCEPT ![p] = "loans"]
    /\ fnow' = [fnow EXCEPT ![p] = clock]
    /\ UNCHANGED <<fines, ftodo>>
    /\ Quiet /\ Silent /\ Still
    /\ UNCHANGED <<ledgerVars, remote, configured, clock, borrowVars, returnVars, shown,
                   syncVars, besideFines>>

\* the ACTIVE loans are read: the overdue ones are visited up to the first
\* that has no PENDING overdue fine
calculateLoans(p) ==
    /\ fpc[p] = "loans"
    /\ LET ids == IdSeq({id \in DOMAIN loans : loans[id].status = "ACTIVE"})
           overdueLoans == SelectSeq(ids, LAMBDA id : loans[id].due_at < fnow[p])
           todo == visit(overdueLoans, fines)
       IN /\ ftodo' = [ftodo EXCEPT ![p] = todo]
          /\ fpc' = [fpc EXCEPT ![p] = IF todo = << >> THEN "idle" ELSE "student"]
    /\ UNCHANGED <<fines, fnow>>
    /\ Quiet /\ Silent /\ Still
    /\ UNCHANGED <<ledgerVars, remote, configured, clock, borrowVars, returnVars, shown,
                   syncVars, besideFines>>

\* the student of the loan is read: the fine is pushed, and the loop goes
\* on up to its next `await`
calculatePush(p) ==
    /\ fpc[p] = "student"
    /\ LET loan == loans[Head(ftodo[p])]
           student == StudentsByIndex(loan.student_index)
           fine == [id |-> Len(fines) + 1, loanId |-> loan.id, type |-> "OVERDUE",
                    amount |-> fineAmount(fnow[p] - loan.due_at), paidAmount |-> 0,
                    status |-> "PENDING"]
           pushed == IF student # {} THEN Append(fines, fine) ELSE fines
           todo == visit(Tail(ftodo[p]), pushed)
       IN /\ fines' = pushed
          /\ ftodo' = [ftodo EXCEPT ![p] = todo]
          /\ fpc' = [fpc EXCEPT ![p] = IF todo = << >> THEN "idle" ELSE "student"]
    /\ UNCHANGED fnow
    /\ Quiet /\ Silent /\ Still
    /\ UNCHANGED <<ledgerVars, remote, configured, clock, borrowVars, returnVars, shown,
                   syncVars, besideFines>>

\* payFine(fineId, amount)
payFine(fineId, amount) ==
    /\ IF fineId \notin DOMAIN fines \/ fines[fineId].status = "PAID"
       THEN UNCHANGED fines
       ELSE LET fine == fines[fineId]
                paidAmount == fine.paidAmount + amount
            IN fines' = [fines EXCEPT ![fineId] =
                   IF paidAmount >= fine.amount
                   THEN [fine EXCEPT !.status = "PAID", !.paidAmount = fine.amount]
                   ELSE [fine EXCEPT !.status = "PARTIAL", !.paidAmount = paidAmount]]
    /\ UNCHANGED <<fpc, fnow, ftodo>>
    /\ Quiet /\ Silent /\ Still
    /\ UNCHANGED <<ledgerVars, remote, configured, clock, borrowVars, returnVars, shown,
                   syncVars, besideFines>>

(* FineSpec: the seeded ledger, whose loan 2 is overdue; the fines are     *)
(* calculated, two calls at a time, and paid in part or in full while the  *)
(* days pass.                                                              *)

\* what is paid at once: $1, or the largest fine
Payments == {2, FineMax}

FineNext ==
    \/ Tick
    \/ \E p \in FineCalls : calculateOverdueFines(p)
    \/ \E p \in FineCalls : calculateLoans(p)
    \/ \E p \in FineCalls : calculatePush(p)
    \/ \E id \in 1..MaxFines : \E amount \in Payments : payFine(id, amount)

FineSpec == ServiceInit /\ [][FineNext]_vars

----------------------------------------------------------------------------
(* ReservationManager: reservations of the items that are on loan.         *)

MaxReservations == 2

\* this.reservations.find(r => r.studentId === studentId &&
\* r.itemTag === itemTag && r.status === 'ACTIVE') that finds nothing
MutexistingReservation(studentId, itemTag) == FALSE

\* this.reservations.find(r => r.studentId === studentId &&
\* r.itemTag === itemTag && r.status === 'ACTIVE'): is there one
existingReservation(studentId, itemTag) ==
    \E i \in DOMAIN reservations :
        /\ reservations[i].studentId = studentId
        /\ reservations[i].itemTag = itemTag
        /\ reservations[i].status = "ACTIVE"

\* the comparator of processBookReturn with the dates the other way round
MutbyPriority(a, b) ==
    IF a.priority # b.priority THEN b.priority - a.priority
    ELSE b.reservedAt - a.reservedAt

\* the comparator of processBookReturn: priority first, then reservation date
byPriority(a, b) ==
    IF a.priority # b.priority THEN b.priority - a.priority
    ELSE a.reservedAt - b.reservedAt

\* reservations[0] of the filtered list once sorted (the sort is stable):
\* the position in this.reservations of the first of those no other precedes
topReservation(itemTag) ==
    LET active == {i \in DOMAIN reservations :
                      reservations[i].itemTag = itemTag /\ reservations[i].status = "ACTIVE"}
        firsts == {i \in active :
                      \A j \in active : byPriority(reservations[j], reservations[i]) >= 0}
    IN IF active = {} THEN 0 ELSE Min(firsts)

\* createReservation is called: await db.loans.where({item_tag, status}).toArray()
createReservation(p, in) ==
    /\ cpc[p] = "idle"
    /\ Len(reservations) + Cardinality({q \in ReserveCalls : cpc[q] # "idle"}) < MaxReservations
    /\ cpc' = [cpc EXCEPT ![p] = "loans"]
    /\ cin' = [cin EXCEPT ![p] = in]
    /\ called' = [fn |-> "createReservation", arg |-> in.itemTag]
    /\ UNCHANGED reservations
    /\ Quiet /\ Silent /\ Still
    /\ UNCHANGED <<ledgerVars, remote, configured, clock, borrowVars, returnVars, shown,
                   syncVars, besideReservations>>

\* the loans of the item are read: an item that is not on loan and a
\* student who has an ACTIVE reservation of it are refused, otherwise the
\* reservation is pushed
createPush(p) ==
    /\ cpc[p] = "loans"
    /\ LET activeLoans == {id \in DOMAIN loans : /\ loans[id].item_tag = cin[p].itemTag
                                                 /\ loans[id].status = "ACTIVE"}
       IN IF activeLoans = {} \/ existingReservation(cin[p].studentId, cin[p].itemTag)
          THEN UNCHANGED reservations
          ELSE reservations' = Append(reservations,
                   [id |-> Len(reservations) + 1, studentId |-> cin[p].studentId,
                    itemTag |-> cin[p].itemTag, reservedAt |-> clock,
                    expiresAt |-> clock + cin[p].daysToExpire, status |-> "ACTIVE",
                    notificationsSent |-> 0, priority |-> 1])
    /\ cpc' = [cpc EXCEPT ![p] = "idle"]
    /\ cin' = [cin EXCEPT ![p] = [studentId |-> 0, itemTag |-> "", daysToExpire |-> 0]]
    /\ called' = NoCall
    /\ Quiet /\ Silent /\ Still
    /\ UNCHANGED <<ledgerVars, remote, configured, clock, borrowVars, returnVars, shown,
                   syncVars, besideReservations>>

\* cancelReservation(reservationId)
cancelReservation(reservationId) ==
    /\ reservations' = IF reservationId \in DOMAIN reservations
                       THEN [reservations EXCEPT ![reservationId].status = "CANCELLED"]
                       ELSE reservations
    /\ called' = [fn |-> "cancelReservation", arg |-> reservationId]
    /\ UNCHANGED <<cpc, cin>>
    /\ Quiet /\ Silent /\ Still
    /\ UNCHANGED <<ledgerVars, remote, configured, clock, borrowVars, returnVars, shown,
                   syncVars, besideReservations>>

\* processBookReturn(itemTag)
processBookReturn(itemTag) ==
    /\ LET top == topReservation(itemTag)
       IN reservations' = IF top = 0 THEN reservations
                          ELSE [reservations EXCEPT ![top].status = "FULFILLED",
                                                    ![top].notificationsSent = @ + 1]
    /\ called' = [fn |-> "processBookReturn", arg |-> itemTag]
    /\ UNCHANGED <<cpc, cin>>
    /\ Quiet /\ Silent /\ Still
    /\ UNCHANGED <<ledgerVars, remote, configured, clock, borrowVars, returnVars, shown,
                   syncVars, besideReservations>>

\* cleanupExpiredReservations()
cleanupExpiredReservations ==
    /\ reservations' = [i \in DOMAIN reservations |->
          IF reservations[i].status = "ACTIVE" /\ reservations[i].expiresAt < clock
          THEN [reservations[i] EXCEPT !.status = "EXPIRED"]
          ELSE reservations[i]]
    /\ called' = [fn |-> "cleanupExpiredReservations", arg |-> 0]
    /\ UNCHANGED <<cpc, cin>>
    /\ Quiet /\ Silent /\ Still
    /\ UNCHANGED <<ledgerVars, remote, configured, clock, borrowVars, returnVars, shown,
                   syncVars, besideReservations>>

\* a day passes
ReservationTick ==
    /\ clock < MaxClock
    /\ clock' = clock + 1
    /\ called' = NoCall
    /\ UNCHANGED <<reservations, cpc, cin>>
    /\ Quiet /\ Silent /\ Still
    /\ UNCHANGED <<ledgerVars, remote, configured, borrowVars, returnVars, shown,
                   syncVars, besideReservations>>

(* ReservationSpec: the seeded ledger; two students reserve an item that   *)
(* is on loan, for a week or for no time at all, and one that is not, two  *)
(* calls at a time; reservations are cancelled, fulfilled and cleaned up   *)
(* while the days pass.                                                    *)

ReservedTags == {"BOOK-CS101", "BOOK-CS205"}

\* the item on loan is reserved by either student for a week or for no
\* time, the item that is not on loan by one student
ReservationInputs ==
    {[studentId |-> st, itemTag |-> "BOOK-CS101", daysToExpire |-> d] :
        st \in {1, 2}, d \in {0, 7}} \cup
    {[studentId |-> 1, itemTag |-> "BOOK-CS205", daysToExpire |-> 7]}

ReservationNext ==
    \/ ReservationTick
    \/ \E p \in ReserveCalls : \E in \in ReservationInputs : createReservation(p, in)
    \/ \E p \in ReserveCalls : createPush(p)
    \/ \E id \in 1..MaxReservations : cancelReservation(id)
    \/ \E tag \in ReservedTags : processBookReturn(tag)
    \/ cleanupExpiredReservations

ReservationSpec == ServiceInit /\ [][ReservationNext]_vars

----------------------------------------------------------------------------
(* store: the lists of notifications, transactions and log lines.  An      *)
(* entry is the number of the add that made it.                            *)

\* .slice(0, 50) of the notifications with the new one in front
NotificationsKept == 50
\* state.transactions.slice(0, 499) behind the new transaction
TransactionsKept == 499
\* state.log.slice(0, 99) behind the new line
LogKept == 99

MaxAdds == 3

\* Array.prototype.slice(0, end)
slice(list, end) == SubSeq(list, 1, Min({end, Len(list)}))

\* the transactions of addTransaction, keeping one more of the old ones
MutpushTransaction(list, transaction) == <<transaction>> \o slice(list, TransactionsKept + 1)

\* [{...notification, id, timestamp, read}, ...state.notifications].slice(0, 50)
pushNotification(list, notification) == slice(<<notification>> \o list, NotificationsKept)

\* [transaction, ...state.transactions.slice(0, 499)]
pushTransaction(list, transaction) == <<transaction>> \o slice(list, TransactionsKept)

\* [`[time] entry`, ...state.log.slice(0, 99)]
pushLogEntry(list, entry) == <<entry>> \o slice(list, LogKept)

\* the adds of a behaviour: MaxAdds to a list from empty, and MaxAdds more
\* from the last add that drops nothing
MayAdd(n, kept) == n < MaxAdds \/ (n >= kept /\ n < kept + MaxAdds)

addNotification ==
    /\ MayAdd(added.notifications, NotificationsKept - 1)
    /\ notifications' = pushNotification(notifications, added.notifications + 1)
    /\ added' = [added EXCEPT !.notifications = @ + 1]
    /\ UNCHANGED <<transactions, log>>
    /\ UNCHANGED besideStore

addTransaction ==
    /\ MayAdd(added.transactions, TransactionsKept)
    /\ transactions' = pushTransaction(transactions, added.transactions + 1)
    /\ added' = [added EXCEPT !.transactions = @ + 1]
    /\ UNCHANGED <<notifications, log>>
    /\ UNCHANGED besideStore

addLogEntry ==
    /\ MayAdd(added.log, LogKept)
    /\ log' = pushLogEntry(log, added.log + 1)
    /\ added' = [added EXCEPT !.log = @ + 1]
    /\ UNCHANGED <<notifications, transactions>>
    /\ UNCHANGED besideStore

(* StoreSpec: the three add actions in any order, from the initial store   *)
(* and from the stores that hold the most entries an add drops nothing     *)
(* from, which are what that many adds to the initial store leave.         *)

\* the add action of the list `which`, on the list
push(which, list, entry) ==
    CASE which = "notifications" -> pushNotification(list, entry)
      [] which = "transactions" -> pushTransaction(list, entry)
      [] which = "log" -> pushLogEntry(list, entry)

\* the list `which` after the adds number from + 1 .. from + k to `list`:
\* the first half of them, then the second half
RECURSIVE adds(_, _, _, _)
adds(which, list, from, k) ==
    IF k = 0 THEN list
    ELSE IF k = 1 THEN push(which, list, from + 1)
    ELSE LET half == k \div 2
             mid == adds(which, list, from, half)
         IN IF Len(mid) >= 0 THEN adds(which, mid, from + half, k - half) ELSE << >>

\* the list `which` of the store after n adds to the initial store
after(which, n) == adds(which, << >>, 0, n)

StoreInit ==
    /\ AppInit /\ configured = FALSE /\ Unplugged /\ Unasked /\ Unseeding
    /\ SignedOut /\ Untried /\ Unfined /\ Unreserved
    /\ added \in [notifications : {0, NotificationsKept - 1},
                  transactions : {0, TransactionsKept}, log : {0, LogKept}]
    /\ notifications = after("notifications", added.notifications)
    /\ transactions = after("transactions", added.transactions)
    /\ log = after("log", added.log)

StoreNext ==
    \/ addNotification
    \/ addTransaction
    \/ addLogEntry

StoreSpec == StoreInit /\ [][StoreNext]_vars

----------------------------------------------------------------------------
(* The handlers, for the call sites `calls` and the form entries         *)
(* `inputs`.  A behaviour writes at most `cap` transactions: a handler     *)
(* that would write one more is not started.                               *)

\* transactions written or about to be written
TxCount ==
    Cardinality(DOMAIN txs) + Cardinality(InFlightBorrows) + Cardinality(PendingReturns)

Borrow(calls, inputs, cap) ==
    \/ \E p \in calls : \E in \in inputs : TxCount < cap /\ BorrowSubmit(p, in)
    \/ \E p \in calls : BorrowResolve(p)
    \/ \E p \in calls : BorrowCount(p)
    \/ \E p \in calls : BorrowAddLoan(p)
    \/ \E p \in calls : BorrowAddTx(p)

Return(calls, cap) ==
    \/ \E idx \in IndexQueries : \E uid \in CardQueries : LoadLoans(idx, uid)
    \/ \E p \in calls : \E i \in 1..Len(shown) : TxCount < cap /\ ReturnPut(p, i)
    \/ \E p \in calls : ReturnAddTx(p)
    \/ \E p \in calls : \E idx \in IndexQueries : \E uid \in CardQueries :
          ReturnReload(p, idx, uid)

Sync(calls) ==
    \/ \E p \in calls : SyncRead(p)
    \/ \E p \in calls : SyncProbeOk(p)
    \/ \E p \in calls : SyncProbeFail(p)
    \/ \E p \in calls : SyncUpsertOk(p)
    \/ \E p \in calls : SyncUpsertRejected(p)
    \/ \E p \in calls : SyncUpsertLost(p)
    \/ \E p \in calls : SyncMark(p)

----------------------------------------------------------------------------
(* Spec: one borrow and one return at a time, against two overlapping sync *)
(* cycles (the timer's and the Sync Now button's).                         *)

\* a card is always scanned; an index is typed in or not
SpecInputs == {in \in BorrowInputs : in.card_uid # NULL /\ in.index_number # "STU-999"}

Next ==
    \/ Borrow({"b1"}, SpecInputs, Len(SeedTxs) + MaxTx)
    \/ Return({"r1"}, Len(SeedTxs) + MaxTx)
    \/ Sync(SyncCalls)

Spec == Init /\ [][Next]_vars

(* BorrowSpec: two overlapping clicks on Confirm Borrow, no cloud sync.    *)

DeskInit == Init /\ configured = FALSE

BorrowNext ==
    \/ Tick
    \/ Borrow(BorrowCalls, BorrowInputs, Len(SeedTxs) + MaxBorrow)

BorrowSpec == DeskInit /\ [][BorrowNext]_vars

(* ReturnSpec: two overlapping clicks on Mark Returned, no cloud sync.     *)

ReturnNext ==
    \/ Tick
    \/ Return(ReturnCalls, Len(SeedTxs) + MaxReturn)

ReturnSpec == DeskInit /\ [][ReturnNext]_vars

(* DeskSpec: the desk with no remote configured, lending and taking back,  *)
(* one borrow and one return at a time, while the clock advances.          *)

DeskNext ==
    \/ Tick
    \/ Borrow({"b1"}, SpecInputs, Len(SeedTxs) + MaxDesk)
    \/ Return({"r1"}, Len(SeedTxs) + MaxDesk)

DeskSpec == DeskInit /\ [][DeskNext]_vars

(* StudentSpec: the Manage Students screen: students are added and edited. *)

StudentNext ==
    \/ \E idx \in StudentIndexEntries : \E card \in StudentCardEntries :
          /\ Cardinality(students) < Cardinality(SeedStudents) + MaxStudents
          /\ handleAddStudent(idx, card)
    \/ \E s \in students :
          \E idx \in StudentIndexEntries \ {NULL} : \E card \in StudentCardEntries :
             handleUpdateStudent(s.id, idx, card)
    \/ Refresh

StudentSpec == DeskInit /\ [][StudentNext]_vars

(* RosterSpec: the Manage Students screen: the rows of the seeded students  *)
(* are edited and deleted.                                                 *)

RosterNext ==
    \/ \E s \in students :
          \E idx \in StudentIndexEntries \ {NULL} : \E card \in StudentCardEntries :
             handleUpdateStudent(s.id, idx, card)
    \/ \E s \in students : handleDeleteStudent(s.id)
    \/ Refresh

RosterSpec == DeskInit /\ [][RosterNext]_vars

(* AlertSpec: the desk lends for 2 or 3 days and takes back while the clock *)
(* advances, and the dashboard's alerts are refreshed.                     *)

AlertInputs ==
    [card_uid : {"CARD-ALICE"}, index_number : {NULL}, item_tag : {"BOOK-1"},
     days : {HorizonDays, HorizonDays + 1}, uuid : KeyDraws]

AlertNext ==
    \/ Tick
    \/ AlertsButton
    \/ RefreshAlerts
    \/ Borrow({"b1"}, AlertInputs, Len(SeedTxs) + MaxDesk)
    \/ Return({"r1"}, Len(SeedTxs) + MaxDesk)

AlertSpec == DeskInit /\ [][AlertNext]_vars

(* QuerySpec: DeskSpec for Alice's card, with the loan ids drawn by         *)
(* crypto.randomUUID() sorting before or after the keys of the table.      *)

QueryInputs ==
    [card_uid : {"CARD-ALICE"}, index_number : {NULL}, item_tag : TagEntries,
     days : {Blank}, uuid : KeyDraws]

QueryNext ==
    \/ Tick
    \/ Borrow({"b1"}, QueryInputs, Len(SeedTxs) + MaxDesk)
    \/ Return({"r1"}, Len(SeedTxs) + MaxDesk)

QuerySpec == DeskInit /\ [][QueryNext]_vars

(* ReaderSpec: a reader is connected and writes up to MaxLines lines; every *)
(* read() returns some of what is on the wire, so that the stream reaches  *)
(* readLines split in every way.                                           *)

ReaderNext ==
    \/ \E r \in Routes : r # route /\ setRoute(r)
    \/ \E kind \in {"card", "item"} :
          \E value \in (IF kind = "card" THEN Uids ELSE Tags) :
             \E line \in ScanLines(kind, value) : \E term \in Terminators :
                LinesWritten < MaxLines /\ ReaderScan(kind, value, line, term)
    \/ \E line \in OtherLines : \E term \in Terminators :
          LinesWritten < MaxLines /\ ReaderLine(line, term)
    \/ \E n \in 1..Len(wire) : \E idx \in IndexQueries : ReaderRead(n, idx)

ReaderSpec == DeskInit /\ [][ReaderNext]_vars

(* DurationSpec: one borrow at a time for Alice, with the days field left  *)
(* empty or holding a number below, inside and above the lending range.    *)

DurationEntries == {Blank, MinDays - 1, MinDays, MaxDays, MaxDays + 1}

DurationInputs ==
    [card_uid : {"CARD-ALICE"}, index_number : {NULL}, item_tag : TagEntries,
     days : DurationEntries, uuid : {"last"}]

DurationNext ==
    \/ Tick
    \/ Borrow({"b1"}, DurationInputs, Len(SeedTxs) + MaxDesk)

DurationSpec == DeskInit /\ [][DurationNext]_vars

----------------------------------------------------------------------------
(* LiveSpec: borrows against the two sync cycles with cloud sync           *)
(* configured, under the scheduling the autosync effect provides:          *)
(* setInterval keeps starting a cycle every 10 seconds, every request is   *)
(* answered, and the remote is reachable and accepting again and again.    *)

LiveInit == Init /\ configured = TRUE

Fairness ==
    /\ WF_vars(SyncRead("timer"))
    /\ SF_vars(SyncProbeOk("timer"))
    /\ SF_vars(SyncUpsertOk("timer"))
    /\ WF_vars(SyncMark("timer"))

\* the desk scans a card and a tag (or forgets the tag) and leaves days alone
LiveInputs == {in \in SpecInputs : in.index_number = NULL /\ in.days = Blank}

LiveNext ==
    \/ Borrow({"b1"}, LiveInputs, Len(SeedTxs) + MaxTx)
    \/ Sync(SyncCalls)

LiveSpec == LiveInit /\ [][LiveNext]_vars /\ Fairness

(* HangSpec: cloud sync configured, under the scheduling the code itself   *)
(* provides.  The timer keeps starting cycles and a cycle's local steps    *)
(* run; fetch() and the upsert are awaited with no timeout and no abort    *)
(* signal, so nothing makes a request that is never answered end.          *)

HangFairness ==
    /\ WF_vars(SyncRead("timer"))
    /\ \A p \in SyncCalls : WF_vars(SyncMark(p))

HangSpec == LiveInit /\ [][LiveNext]_vars /\ HangFairness

(* BadgeSpec: Spec with the header's badges: the refresh() that a borrow,  *)
(* a return and a successful cycle call sets the badges in a later step.   *)

BadgeNext ==
    \/ Refresh
    \/ Borrow({"b1"}, SpecInputs, Len(SeedTxs) + MaxTx)
    \/ Return({"r1"}, Len(SeedTxs) + MaxTx)
    \/ Sync(SyncCalls)

BadgeSpec == Init /\ [][BadgeNext]_vars

----------------------------------------------------------------------------
(* Properties *)

ActiveLoans == {l \in DOMAIN loans : loans[l].status = "ACTIVE"}
ReturnedLoans == {l \in DOMAIN loans : loans[l].status = "RETURNED"}
SyncsInFlight == {p \in SyncCalls : spc[p] # "idle"}

\* the transaction row without its synced flag
Content(row) == [row EXCEPT !.synced = 0]

\* the ids the remote table holds, and the remote rows that carry an id
RemoteIds == {remote[i].id : i \in DOMAIN remote}
RemoteRows(id) == {i \in DOMAIN remote : remote[i].id = id}

\* the RETURN transactions written for loan l
ReturnTxsOf(l) == {t \in ReturnTxs : txLoan[t] = l}

\* the BORROW transactions matching loan l's (student_index, item_tag, borrowed_at)
BorrowTxsOf(l) ==
    {t \in DOMAIN txs :
        /\ txs[t].action = "BORROW"
        /\ txs[t].student_index = loans[l].student_index
        /\ txs[t].item_tag = loans[l].item_tag
        /\ txs[t].occurred_at = loans[l].borrowed_at}

\* C1: no student ever has more than 3 ACTIVE loans, whatever the interleaving
\* of concurrent Borrow calls.
C1_ActiveLoanLimit ==
    \A s \in students : countActiveLoans(s.index_number) <= MaxActive

\* C2: no step deletes a transaction, changes a field of a transaction other
\* than synced, or takes synced from 1 back to 0.
C2_TxAppendOnly ==
    [][\A id \in DOMAIN txs :
          /\ id \in DOMAIN txs'
          /\ Content(txs'[id]) = Content(txs[id])
          /\ (txs[id].synced = 1 => txs'[id].synced = 1)]_vars

\* a synced transaction of which an overlapping cycle still holds the unsynced
\* copy it is about to write back, and a transaction appended after the seed
C2_Witness ==
    /\ Cardinality(DOMAIN txs) > Len(SeedTxs)
    /\ \E p \in SyncCalls : \E id \in DOMAIN suns[p] :
          spc[p] = "mark" /\ txs[id].synced = 1

\* C3: at most one sync cycle is in flight at any time.
C3_OneSyncInFlight == Cardinality(SyncsInFlight) <= 1

\* C4: a transaction whose synced flag is 1 is stored in the remote, with the
\* content it has locally.
C4_SyncedIsRemote ==
    \A id \in DOMAIN txs :
        txs[id].synced = 1 =>
            \E i \in RemoteRows(id) : Content(remote[i]) = Content(txs[id])

\* a cycle has marked its batch while a transaction appended later is still
\* unsynced and unknown to the remote
C4_Witness ==
    /\ \E id \in DOMAIN txs : txs[id].synced = 1
    /\ \E id \in DOMAIN txs : txs[id].synced = 0 /\ id \notin RemoteIds

\* C5: under fairness every unsynced transaction is eventually stored in the
\* remote and marked synced.
C5_EventuallySynced ==
    \A id \in 1..(Len(SeedTxs) + MaxTx) :
        (id \in DOMAIN txs /\ txs[id].synced = 0)
            ~> (id \in DOMAIN txs /\ txs[id].synced = 1 /\ id \in RemoteIds)

\* every transaction, one appended after the seed included, is synced and remote
C5_Witness ==
    /\ Cardinality(DOMAIN txs) > Len(SeedTxs)
    /\ \A id \in DOMAIN txs : txs[id].synced = 1 /\ id \in RemoteIds

\* C6: a second Return of the same loan appends no transaction: no loan has
\* more than one RETURN transaction.
C6_SecondReturnIsNoOp ==
    \A l \in DOMAIN loans : Cardinality(ReturnTxsOf(l)) <= 1

\* C7: the step in which a Borrow call is rejected leaves the loans and the
\* transactions as they were, and the rejected call has written no loan before.
C7_RejectedBorrowWritesNothing ==
    [][alert' # "none" =>
          /\ loans' = loans
          /\ txs' = txs
          /\ \A p \in BorrowCalls : bpc'[p] = "idle" => bloan[p] = 0]_vars

\* a borrow was just rejected for the loan limit
C7_Witness ==
    /\ alert = "limit"
    /\ \E s \in students : countActiveLoans(s.index_number) >= MaxActive

\* C8: every ACTIVE loan has exactly one matching BORROW transaction and no
\* RETURN transaction, in every state.
C8_ActiveLoanHasBorrowTx ==
    \A l \in ActiveLoans :
        Cardinality(BorrowTxsOf(l)) = 1 /\ ReturnTxsOf(l) = {}

\* C9: every RETURNED loan has exactly one RETURN transaction, in every state.
C9_ReturnedLoanHasReturnTx ==
    \A l \in ReturnedLoans : Cardinality(ReturnTxsOf(l)) = 1

\* C10: once a loan is RETURNED no step changes it.
C10_ReturnedIsFinal ==
    [][\A l \in ReturnedLoans : l \in DOMAIN loans' /\ loans'[l] = loans[l]]_vars

\* C11: a cycle whose reachability probe fails sends nothing to the remote,
\* changes no local record and disturbs no borrow or return: no alert, and
\* the handlers in progress are where they were.
C11_ProbeFailureIsNoOp ==
    [][\A p \in SyncCalls :
          (spc[p] = "probe" /\ spc'[p] = "idle") =>
              /\ remote' = remote
              /\ ledgerVars' = ledgerVars
              /\ alert' = "none"
              /\ borrowVars' = borrowVars
              /\ returnVars' = returnVars]_vars

\* Sync Now just found the remote unreachable while a borrow is in progress
\* and transactions are unsynced
C11_Witness ==
    /\ synclog = "Offline."
    /\ Unsynced # {}
    /\ \E p \in BorrowCalls : bpc[p] # "idle"

\* C12: a cycle's batch is all or nothing.  A cycle that ends after a failed
\* upsert (refused, thrown, or stored with the answer lost) changes no
\* transaction, so its batch is still unsynced; the step that marks a batch
\* sets synced = 1 on every transaction of the batch at once and touches no
\* other transaction; and a cycle that starts reads every unsynced
\* transaction into its batch.
C12_BatchAllOrNothing ==
    [][\A p \in SyncCalls :
          /\ (spc[p] = "upsert" /\ spc'[p] = "idle") =>
                 /\ txs' = txs
                 /\ synclog' = "Sync failed"
          /\ (spc[p] = "mark" /\ spc'[p] = "idle") =>
                 /\ DOMAIN txs' = DOMAIN txs
                 /\ \A id \in DOMAIN suns[p] : txs'[id].synced = 1
                 /\ \A id \in DOMAIN txs \ DOMAIN suns[p] : txs'[id] = txs[id]
          /\ (spc[p] = "idle" /\ spc'[p] = "probe") =>
                 DOMAIN suns'[p] = {id \in DOMAIN txs : txs[id].synced = 0}]_vars

\* the only cycle in flight has just read a batch with a transaction that an
\* earlier, failed cycle left in the remote and unsynced
C12_Witness ==
    \E p \in SyncCalls :
        /\ spc[p] = "probe"
        /\ \A q \in SyncCalls \ {p} : spc[q] = "idle"
        /\ \E id \in DOMAIN suns[p] : id \in RemoteIds /\ txs[id].synced = 0

\* C13: the remote holds one row per transaction id, however often an id is
\* submitted, and submitting a batch in flight a second time gives the remote
\* table that submitting it once gives.
C13_UpsertIdempotent ==
    /\ \A i, j \in DOMAIN remote : remote[i].id = remote[j].id => i = j
    /\ \A p \in SyncCalls :
          upsert(upsert(remote, suns[p]), suns[p]) = upsert(remote, suns[p])

\* two cycles have both submitted a batch holding the same transaction
C13_Witness ==
    /\ \A p \in SyncCalls : spc[p] = "mark"
    /\ \E id \in RemoteIds : \A p \in SyncCalls : id \in DOMAIN suns[p]

\* C14: a Borrow call that passed validation and the limit check inserts
\* one loan (ACTIVE, no returned_at, due the requested number of days after
\* borrowed_at, 14 when none was entered) and then appends one BORROW
\* transaction (synced 0) with the loan's student, item and borrowed_at;
\* neither step changes anything else in the ledger.
C14_BorrowCreatesLoanAndTx ==
    [][\A p \in BorrowCalls :
          /\ (bpc[p] = "addLoan" /\ bpc'[p] = "addTx") =>
                 /\ students' = students /\ txs' = txs
                 /\ \E id \in DOMAIN loans' \ DOMAIN loans :
                       /\ DOMAIN loans' = DOMAIN loans \cup {id}
                       /\ \A l \in DOMAIN loans : loans'[l] = loans[l]
                       /\ loans'[id].status = "ACTIVE"
                       /\ loans'[id].returned_at = NoTime
                       /\ loans'[id].student_index = bstu[p]
                       /\ loans'[id].item_tag = bin[p].item_tag
                       /\ loans'[id].borrowed_at = bnow[p]
                       /\ bin[p].days = Blank =>
                              loans'[id].due_at = loans'[id].borrowed_at + DefaultDays
                       /\ bin[p].days >= 1 =>
                              loans'[id].due_at = loans'[id].borrowed_at + bin[p].days
                       /\ bloan'[p] = id
          /\ (bpc[p] = "addTx" /\ bpc'[p] = "idle") =>
                 /\ students' = students /\ loans' = loans
                 /\ \E id \in DOMAIN txs' \ DOMAIN txs :
                       /\ DOMAIN txs' = DOMAIN txs \cup {id}
                       /\ \A t \in DOMAIN txs : txs'[t] = txs[t]
                       /\ txs'[id].action = "BORROW"
                       /\ txs'[id].synced = 0
                       /\ txs'[id].student_index = loans[bloan[p]].student_index
                       /\ txs'[id].item_tag = loans[bloan[p]].item_tag
                       /\ txs'[id].occurred_at = loans[bloan[p]].borrowed_at]_vars

\* a borrow is complete: a loan made after the seed is ACTIVE, due 14 days
\* after it was borrowed, and has its BORROW transaction
C14_Witness ==
    \E l \in DOMAIN loans :
        /\ l > Len(SeedLoans)
        /\ loans[l].status = "ACTIVE"
        /\ loans[l].due_at = loans[l].borrowed_at + DefaultDays
        /\ \E t \in BorrowTxsOf(l) : txLoan[t] = l

\* C15: a loan that was returned is stored RETURNED with a returned_at, and
\* the active loans listed for its student do not hold it and hold every
\* loan of the student that is still ACTIVE.
C15_ReturnedLoanNotListed ==
    \A l \in ReturnedLoans :
        LET list == activeLoansForStudent(loans[l].student_index, NULL)
        IN /\ loans[l].returned_at # NoTime
           /\ \A i \in DOMAIN list : list[i].id # l
           /\ \A a \in ActiveLoanIds(loans[l].student_index) :
                 \E i \in DOMAIN list : list[i] = loans[a]

\* a Return call is over: the loan it returned is RETURNED and the list it
\* reloaded shows another loan of the student, still ACTIVE
C15_Witness ==
    /\ \A p \in ReturnCalls : rpc[p] = "idle"
    /\ \E l \in ReturnedLoans :
          /\ loans[l].returned_at >= 0
          /\ shown # << >>
          /\ shown = SortByDue(activeLoansForStudent(loans[l].student_index, NULL))

\* C16: the loan a Borrow call inserts is due the requested number of days
\* after it was borrowed, clamped to [1, 365], and 14 days after when no
\* duration was entered.
C16_DurationClamped ==
    [][\A p \in BorrowCalls :
          (bpc[p] = "addLoan" /\ bpc'[p] = "addTx") =>
              LET d == bin[p].days
                  clamped == IF d = Blank THEN DefaultDays
                             ELSE IF d < MinDays THEN MinDays
                             ELSE IF d > MaxDays THEN MaxDays ELSE d
              IN loans'[bloan'[p]].due_at = loans'[bloan'[p]].borrowed_at + clamped]_vars

\* C17: every sync cycle terminates: a cycle in flight is eventually over,
\* also when its probe or its upsert is never answered.
C17_CycleTerminates ==
    \A p \in SyncCalls : (spc[p] # "idle") ~> (spc[p] = "idle")

\* C18: the unsynced badge equals the number of transactions with synced = 0,
\* in every state.
C18_BadgeIsUnsyncedCount ==
    badge = Cardinality({t \in DOMAIN txs : txs[t].synced = 0})

\* C19: a step of a sync cycle, whatever its outcome, adds and removes no
\* transaction, changes no loan and no student, raises no alert and leaves
\* every borrow and return in progress, and the list on screen, as they
\* were; and a borrow or a return in progress can always take its next
\* step, whether or not the remote is configured, reachable or accepting.
C19_SyncLeavesForegroundAlone ==
    /\ [][spc' # spc =>
             /\ DOMAIN txs' = DOMAIN txs
             /\ loans' = loans
             /\ students' = students
             /\ alert' = "none"
             /\ borrowVars' = borrowVars
             /\ returnVars' = returnVars
             /\ shown' = shown]_vars
    /\ [](\A p \in BorrowCalls :
             bpc[p] # "idle" =>
                 ENABLED (BorrowResolve(p) \/ BorrowCount(p) \/ BorrowAddLoan(p) \/ BorrowAddTx(p)))
    /\ [](\A p \in ReturnCalls :
             /\ rpc[p] = "addTx" => ENABLED ReturnAddTx(p)
             /\ rpc[p] = "reload" => ENABLED ReturnReload(p, NULL, NULL))

\* a cycle awaits the remote's answer while the ledger holds a transaction
\* written after the cycle read its batch
C19_Witness ==
    \E p \in SyncCalls :
        /\ spc[p] = "upsert"
        /\ DOMAIN txs \ DOMAIN suns[p] # {}

\* C20: no two students share an index_number, and no two students share a
\* card_uid that is not null.
C20_StudentKeysUnique ==
    \A s, t \in students :
        s.id # t.id =>
            /\ s.index_number # t.index_number
            /\ s.card_uid # NULL => s.card_uid # t.card_uid

\* C21: in every state the student_index of every ACTIVE loan is the
\* index_number of a student of the students table: a student with an ACTIVE
\* loan is not deleted and keeps its index_number.
C21_ActiveLoanHasStudent ==
    \A l \in ActiveLoans : StudentsByIndex(loans[l].student_index) # {}

\* the places of the line terminators in a text, and the text of the k-th
\* complete line: what lies between two terminators, without the white
\* space around it (the CR of a CR LF included)
Ends(text) == {i \in DOMAIN text : text[i] = LF}
LineBefore(text, e) ==
    LET before == {i \in Ends(text) : i < e}
        from == IF before = {} THEN 1 ELSE Top(before) + 1
    IN trim(SubSeq(text, from, e - 1))
FullLines(text) ==
    LET full == {e \in Ends(text) : LineBefore(text, e) # << >>}
    IN [k \in 1..Cardinality(full) |->
           Join(LineBefore(text, CHOOSE e \in full : Cardinality({f \in full : f < e}) = k - 1))]
RawLines(evs) ==
    LET at == {i \in DOMAIN evs : evs[i].event = "raw"}
    IN [k \in 1..Cardinality(at) |->
           evs[CHOOSE i \in at : Cardinality({j \in at : j < i}) = k - 1].data]

\* C22: however the stream is split into reads, the lines for which events
\* were emitted are the complete (terminated), non-empty lines received so
\* far, in arrival order; what follows the last terminator is kept in the
\* buffer; and the events are those that one read of the whole text gives.
C22_FramingIgnoresChunking ==
    /\ RawLines(events) = FullLines(received)
    /\ buffer = SubSeq(received,
                       (IF Ends(received) = {} THEN 0 ELSE Top(Ends(received))) + 1,
                       Len(received))
    /\ events = frame(received, << >>).out

\* a line was emitted, and the next line is in the buffer up to its CR while
\* its LF is still on the wire
C22_Witness ==
    /\ events # << >>
    /\ Len(buffer) > 1 /\ buffer[Len(buffer)] = CR
    /\ wire # << >> /\ wire[1] = LF

\* the values of the scans of one kind the reader reported, and the data of
\* the events of one kind passed to onEvent, both in order
ScansOf(kind) ==
    LET at == {i \in DOMAIN scans : scans[i].kind = kind}
    IN [k \in 1..Cardinality(at) |->
           scans[CHOOSE i \in at : Cardinality({j \in at : j < i}) = k - 1].value]
EventsOf(kind) ==
    LET at == {i \in DOMAIN events : events[i].event = kind}
    IN [k \in 1..Cardinality(at) |->
           events[CHOOSE i \in at : Cardinality({j \in at : j < i}) = k - 1].data]

\* C23: once everything the reader wrote has been read, the card events
\* carry the UIDs of the card scans the reader reported, one event per scan
\* and in order, and the item events carry the tags of the item scans.
C23_EveryScanIsOneEvent ==
    wire = << >> =>
        /\ EventsOf("card") = ScansOf("card")
        /\ EventsOf("item") = ScansOf("item")

\* the student index a query is about: the index given, else that of the
\* student who holds the card, else none
QueriedIndex(idx, uid) ==
    IF idx # NULL THEN idx
    ELSE IF uid # NULL /\ StudentsByCard(uid) # {} THEN first(StudentsByCard(uid)).index_number
    ELSE NULL

\* loan b is listed before loan a: it is due earlier, or due at the same
\* time and inserted earlier
ListedBefore(b, a) ==
    \/ loans[b].due_at < loans[a].due_at
    \/ loans[b].due_at = loans[a].due_at /\ b < a

\* the ACTIVE loans of a student index by due_at, then by insertion
DueList(idx) ==
    LET S == IF idx = NULL THEN {} ELSE ActiveLoanIds(idx)
    IN [k \in 1..Cardinality(S) |->
           loans[CHOOSE a \in S : Cardinality({b \in S : ListedBefore(b, a)}) = k - 1]]

\* C24: the list loaded for a student index or a card UID is the ACTIVE
\* loans with that student's index, by due_at ascending and, for equal
\* due_at, in insertion order; it is empty when the card belongs to no
\* student; and the step that loads the list changes no record.
C24_ActiveLoansForIsSortedRead ==
    /\ [](\A idx \in IndexQueries : \A uid \in CardQueries \cup {"CARD-NONE"} :
             SortByDue(activeLoansForStudent(idx, uid)) = DueList(QueriedIndex(idx, uid)))
    /\ [][(shown' # shown /\ rpc' = rpc) =>
             (students' = students /\ loans' = loans /\ txs' = txs)]_vars

\* C25: the step that sets the alerts sets them to exactly the loans that
\* are ACTIVE and due at or before now + 2 days, overdue ones included and
\* RETURNED ones excluded, each once, in ascending order of due_at.
C25_AlertsAreDueSoonOrOverdue ==
    [][(alerting /\ ~alerting') =>
          /\ {alerts'[i].id : i \in DOMAIN alerts'} =
                 {l \in ActiveLoans : loans[l].due_at <= clock + HorizonDays}
          /\ \A i \in DOMAIN alerts' : alerts'[i] = loans[alerts'[i].id]
          /\ \A i, j \in DOMAIN alerts' :
                 /\ alerts'[i].id = alerts'[j].id => i = j
                 /\ i < j => alerts'[i].due_at <= alerts'[j].due_at]_vars

\* the alerts were just set: they list the overdue seeded loan and a loan
\* lent since that is due exactly 2 days from now, and leave out an ACTIVE
\* loan due later and the RETURNED loan that was due long ago
C25_Witness ==
    /\ ~alerting
    /\ alerts = flagged(clock)
    /\ \E i, j \in DOMAIN alerts :
          /\ alerts[i].due_at < clock
          /\ alerts[j].id > Len(SeedLoans) /\ alerts[j].due_at = clock + HorizonDays
    /\ \E l \in ActiveLoans : loans[l].due_at > clock + HorizonDays
    /\ \E l \in ReturnedLoans : loans[l].due_at < clock

\* C26: a command that was validated is accepted exactly when its trimmed,
\* upper-cased form begins with a command of the allow list and contains
\* none of ";", "&&", "||"; an accepted command is returned in that form,
\* and a rejected one is rejected with "Command not allowed" or "Invalid
\* characters in command".
C26_OnlyListedCommandsPass ==
    (commandResult # NoResult /\ command # << >>) =>
        LET form == toUpperCase(trim(command))
            listed == \E i \in DOMAIN allowedCommands : startsWith(form, allowedCommands[i])
            clean == /\ ~includes(form, <<";">>)
                     /\ ~includes(form, <<"&", "&">>)
                     /\ ~includes(form, <<"|", "|">>)
        IN /\ commandResult.valid <=> (listed /\ clean)
           /\ commandResult.valid => commandResult.value = form
           /\ ~commandResult.valid =>
                  commandResult.error \in {"Command not allowed", "Invalid characters in command"}

\* the characters of a text that are no white space, "-" or ":", in order
\* and in upper case
Bare(u) ==
    LET at == {i \in DOMAIN u : u[i] \notin White /\ u[i] # "-" /\ u[i] # ":"}
    IN toUpperCase([k \in 1..Cardinality(at) |->
                       u[CHOOSE i \in at : Cardinality({j \in at : j < i}) = k - 1]])

\* C27: a UID that was validated is valid exactly when it is, without its
\* white space, "-" and ":" and in upper case, 4 to 20 hexadecimal
\* characters; formatted is then that form, and validating formatted again
\* returns the same result.
C27_UidFormatIsIdempotent ==
    uidResult # NoResult =>
        /\ uidResult.valid <=>
               /\ Len(Bare(rawUid)) \in MinUidLength..MaxUidLength
               /\ \A i \in DOMAIN Bare(rawUid) : Bare(rawUid)[i] \in HexDigits
        /\ uidResult.valid =>
               /\ uidResult.value = Bare(rawUid)
               /\ validateAndFormatUID(uidResult.value) = uidResult

\* a UID typed in lower case with separators was found valid and formatted
C27_Witness ==
    /\ uidResult.valid
    /\ uidResult.value # rawUid
    /\ \E i, j \in DOMAIN rawUid : rawUid[i] \in Separators /\ rawUid[j] \in DOMAIN UpperCase

\* C28: the step in which a cycle marks its batch leaves every transaction
\* that is not in the batch, one appended since the batch was read
\* included, in the table and as it was, so unsynced if it was; and a cycle
\* that starts reads every transaction with synced = 0 as it is.
C28_LateTxWaitsForNextCycle ==
    [][\A p \in SyncCalls :
          /\ (spc[p] = "mark" /\ spc'[p] = "idle") =>
                 \A id \in DOMAIN txs \ DOMAIN suns[p] :
                     id \in DOMAIN txs' /\ txs'[id] = txs[id]
          /\ (spc[p] = "idle" /\ spc'[p] = "probe") =>
                 \A id \in DOMAIN txs :
                     txs[id].synced = 0 =>
                         id \in DOMAIN suns'[p] /\ suns'[p][id] = txs[id]]_vars

\* a cycle has just marked its batch, and a transaction appended after the
\* seed, which the batch did not hold, is still unsynced
C28_Witness ==
    /\ synclog = "Synced"
    /\ \E id \in DOMAIN txs : txs[id].synced = 1
    /\ \E id \in DOMAIN txs :
          id > Len(SeedTxs) /\ txs[id].synced = 0 /\ id \notin RemoteIds

\* C29: however often and however overlapped seedInitialData runs, the
\* database never holds more than one copy of the seed (3 students, 3 loans,
\* 4 transactions), and holds exactly one once no invocation is running and
\* one has run.
C29_SeededOnce ==
    /\ Cardinality(students) <= Cardinality(SeedStudents)
    /\ Len(loans) <= Len(SeedLoans)
    /\ Len(txs) <= Len(SeedTxs)
    /\ ((\A p \in SeedCalls : sdpc[p] = "idle") /\ students # {}) =>
           /\ {[index_number |-> s.index_number, card_uid |-> s.card_uid] : s \in students}
                 = {[index_number |-> s.index_number, card_uid |-> s.card_uid] : s \in SeedStudents}
           /\ Cardinality(students) = Cardinality(SeedStudents)
           /\ loans = SeedLoans
           /\ txs = SeedTxs

\* C30: a Borrow call that was given a student index resolves the student
\* by that index whatever card was entered: when no student has the index
\* the call ends with "student not found" and writes nothing, otherwise it
\* goes on for the student with that index; and the loan and the
\* transaction it then writes carry that student's index_number and the
\* card UID as entered.
C30_IndexResolvesAlone ==
    [][\A p \in BorrowCalls :
          /\ (bpc[p] = "resolve" /\ bpc'[p] # "resolve" /\ bin[p].index_number # NULL) =>
                 IF \E s \in students : s.index_number = bin[p].index_number
                 THEN bpc'[p] = "count" /\ bstu'[p] = bin[p].index_number
                 ELSE /\ bpc'[p] = "idle" /\ alert' = "not_found"
                      /\ loans' = loans /\ txs' = txs
          /\ (bpc[p] = "addLoan" /\ bpc'[p] = "addTx") =>
                 /\ loans'[bloan'[p]].student_index = bstu[p]
                 /\ loans'[bloan'[p]].user_uid = bin[p].card_uid
          /\ (bpc[p] = "addTx" /\ bpc'[p] = "idle") =>
                 \E id \in DOMAIN txs' \ DOMAIN txs :
                     /\ txs'[id].student_index = bstu[p]
                     /\ txs'[id].user_uid = bin[p].card_uid]_vars

\* a borrow entered with Bob's index and Alice's card is complete: its loan
\* and its transaction carry Bob's index and Alice's card
C30_Witness ==
    \E l \in DOMAIN loans : \E t \in DOMAIN txs :
        /\ l > Len(SeedLoans) /\ txLoan[t] = l
        /\ loans[l].student_index = "STU-002" /\ loans[l].user_uid = "CARD-ALICE"
        /\ txs[t].student_index = "STU-002" /\ txs[t].user_uid = "CARD-ALICE"

\* the step is an authenticate call made for the client c
CallFor(c) ==
    /\ logins' = logins + 1
    /\ \/ authReturn'.fn = "authenticate" /\ authReturn'.clientId = c
       \/ \E p \in AuthCalls : apc[p] = "idle" /\ apc'[p] = "compare" /\ ain'[p].clientId = c

\* maxLoginAttempts failures or more are recorded for the client c
Exhausted(c) ==
    c \in DOMAIN loginAttempts /\ loginAttempts[c].count >= maxLoginAttempts

\* C31: while maxLoginAttempts failed logins are recorded for a client, a
\* login of that client made less than lockoutDuration after the last
\* recorded failure is rejected: it checks no credentials, records nothing
\* and makes no session.  A login made when the lockout is over is not
\* rejected for the limit and finds the counter cleared: it leaves no
\* record, or the record of its own failure alone.  A login that gets to
\* the password check with the right password succeeds, makes a session
\* and clears the counter of its client.
C31_LockoutAfterFiveFailures ==
    [][/\ \A c \in ClientIds :
             (Exhausted(c) /\ CallFor(c)) =>
                 IF authClock - loginAttempts[c].lastAttempt < lockoutDuration
                 THEN /\ authReturn' = Failure(c, "too_many")
                      /\ apc' = apc /\ sessions' = sessions
                      /\ loginAttempts' = loginAttempts
                 ELSE /\ authReturn' # Failure(c, "too_many")
                      /\ \/ c \notin DOMAIN loginAttempts'
                         \/ loginAttempts'[c] = [count |-> 1, lastAttempt |-> authClock]
       /\ \A p \in AuthCalls :
             (apc[p] = "compare" /\ apc'[p] = "idle" /\ ain[p].password = adminPassword) =>
                 /\ authReturn'.success
                 /\ Len(sessions') = Len(sessions) + 1
                 /\ sessions'[Len(sessions')].token = authReturn'.token
                 /\ ain[p].clientId \notin DOMAIN loginAttempts']_vars

\* the admin exists, and a login of the client "web" has just been rejected
\* for the limit, five or ten minutes after its last recorded failure
C31_Witness ==
    /\ users # << >>
    /\ authReturn = Failure("web", "too_many")
    /\ Exhausted("web")
    /\ authClock - loginAttempts["web"].lastAttempt \in 1..(lockoutDuration - 1)

\* the session with the token t is in `sessions` and its expiry time has not passed
Live(t) ==
    \E i \in DOMAIN sessions : sessions[i].token = t /\ authClock <= sessions[i].expiresAt

\* C32: validateSession(token) returns valid only for a token that a
\* successful authenticate has returned, whose session is in `sessions`,
\* has not expired and belongs to an active user; a token is made only by
\* a successful authenticate; logout(token) leaves no session with the
\* token; and a token whose session is gone or expired stays so, so that
\* validateSession never returns valid for it again.
C32_SessionValidity ==
    [][/\ (authReturn'.fn = "validateSession" /\ authReturn'.valid) =>
             /\ authReturn'.token \in 1..issued
             /\ Live(authReturn'.token)
             /\ \E i \in DOMAIN sessions : \E k \in DOMAIN users :
                   /\ sessions[i].token = authReturn'.token
                   /\ users[k].id = sessions[i].userId /\ users[k].isActive
       /\ issued' # issued =>
             /\ issued' = issued + 1
             /\ authReturn'.fn = "authenticate" /\ authReturn'.success
             /\ authReturn'.token = issued'
             /\ \E i \in DOMAIN sessions' : sessions'[i].token = issued'
       /\ authReturn'.fn = "logout" =>
             \A i \in DOMAIN sessions' : sessions'[i].token # authReturn'.token
       /\ \A t \in 1..issued : ~Live(t) => ~Live(t)']_vars

\* two tokens were made, the first has been logged out or has expired while
\* the second is live, and validateSession has just refused the first
C32_Witness ==
    /\ issued = 2 /\ ~Live(1) /\ Live(2)
    /\ authReturn = [fn |-> "validateSession", token |-> 1, valid |-> FALSE]

\* the invocations of the operation so far, the pending one included
Invocations == Len(opLog) + (IF wpc = "operation" THEN 1 ELSE 0)

\* the invocations that have rejected
Rejections == {i \in DOMAIN opLog : opLog[i].kind = "rejected"}

Unsettled(loanId) ==
    {i \in DOMAIN fines : /\ fines[i].loanId = loanId /\ fines[i].type = "OVERDUE"
                          /\ fines[i].status \in {"PENDING", "PARTIAL"}}

\* C34: every loan has at most one OVERDUE fine that is PENDING or PARTIAL.
C34_OneUnsettledOverdueFine ==
    \A id \in DOMAIN loans : Cardinality(Unsettled(id)) <= 1

\* the ACTIVE reservations of the student for the item
ActiveFor(studentId, itemTag) ==
    {i \in DOMAIN reservations : /\ reservations[i].studentId = studentId
                                 /\ reservations[i].itemTag = itemTag
                                 /\ reservations[i].status = "ACTIVE"}

\* C35: a student never has two ACTIVE reservations of one item, and a
\* reservation that is not ACTIVE is not ACTIVE after any step.
C35_OneActiveReservationPerPair ==
    /\ [](\A i \in DOMAIN reservations :
             Cardinality(ActiveFor(reservations[i].studentId, reservations[i].itemTag)) <= 1)
    /\ [][\A i \in DOMAIN reservations :
             /\ i \in DOMAIN reservations' /\ reservations'[i].id = reservations[i].id
             /\ reservations[i].status # "ACTIVE" => reservations'[i].status # "ACTIVE"]_vars

\* student 1 has reserved the same item twice: the first reservation has
\* expired and the second, made after that, is ACTIVE
C35_Witness ==
    /\ Len(reservations) = 2
    /\ \A i \in 1..2 : reservations[i].studentId = 1 /\ reservations[i].itemTag = "BOOK-CS101"
    /\ reservations[1].status = "EXPIRED"
    /\ reservations[2].status = "ACTIVE"

\* C36: a processBookReturn(itemTag) step changes nothing when the item
\* has no ACTIVE reservation; otherwise it changes one reservation, an
\* ACTIVE one of the item that none has a higher priority than and none of
\* the same priority was reserved before: it becomes FULFILLED, its
\* notificationsSent grows by one and nothing else changes.
C36_ReturnFulfilsHeadOfQueue ==
    [][called'.fn = "processBookReturn" =>
          LET active == {i \in DOMAIN reservations :
                            /\ reservations[i].itemTag = called'.arg
                            /\ reservations[i].status = "ACTIVE"}
          IN IF active = {} THEN reservations' = reservations
             ELSE \E i \in active :
                     /\ \A j \in active :
                           \/ reservations[j].priority < reservations[i].priority
                           \/ /\ reservations[j].priority = reservations[i].priority
                              /\ reservations[i].reservedAt <= reservations[j].reservedAt
                     /\ reservations' =
                           [reservations EXCEPT ![i].status = "FULFILLED",
                               ![i].notificationsSent = reservations[i].notificationsSent + 1]
      ]_vars

\* the item had two ACTIVE reservations, made on different days, and its
\* return has just fulfilled the one made first and left the other ACTIVE
C36_Witness ==
    /\ called = [fn |-> "processBookReturn", arg |-> "BOOK-CS101"]
    /\ \E i, j \in DOMAIN reservations :
          /\ reservations[i].itemTag = "BOOK-CS101" /\ reservations[j].itemTag = "BOOK-CS101"
          /\ reservations[i].reservedAt > reservations[j].reservedAt
          /\ reservations[i].status = "ACTIVE" /\ reservations[j].status = "FULFILLED"
          /\ reservations[j].notificationsSent = 1

\* the latest n adds of `count`, newest first
Latest(count, n) == [i \in 1..Min({count, n}) |-> count - i + 1]

\* C37: the store holds the latest 50 notifications, the latest 500
\* transactions and the latest 100 log entries that were added, or all that
\* were added when they are fewer, each list newest first.
C37_StoreListsAreCapped ==
    /\ Len(notifications) <= 50 /\ Len(transactions) <= 500 /\ Len(log) <= 100
    /\ notifications = Latest(added.notifications, 50)
    /\ transactions = Latest(added.transactions, 500)
    /\ log = Latest(added.log, 100)

\* more than 50 notifications, 500 transactions and 100 log entries were
\* added, and each list is full
C37_Witness ==
    /\ added.notifications > 50 /\ added.transactions > 500 /\ added.log > 100
    /\ Len(notifications) = 50 /\ Len(transactions) = 500 /\ Len(log) = 100

====
